---- MODULE Spec2Model ----
(***************************************************************************)
(* Model of the swap-program tester: the account ledger kept by           *)
(* SwapTestContext, the execution-oracle adapter, program-address          *)
(* derivation, the instruction codec and the SwapFixture scenario.         *)
(*                                                                         *)
(* Representation.  A Pubkey is a sequence of bytes.  Ordinary keys are    *)
(* 32 bytes long.  SHA-256 over the bytes of a derivation is               *)
(* abstracted to a 32-byte checksum of the hashed bytes.  Whether a digest *)
(* lies on the ed25519 curve is not computable here; it is a parameter of  *)
(* the behaviour (variable off_curve) chosen at Init and never changed.    *)
(* An Option value is the empty sequence (None) or a one-element sequence  *)
(* (Some).                                                                 *)
(***************************************************************************)
EXTENDS Integers, Sequences, FiniteSets, TLC

VARIABLES
    accounts,       \* SwapTestContext.accounts: HashMap<Pubkey, Account>
    next_unique,    \* the process-wide counter behind Pubkey::new_unique
    oracle_calls,   \* number of instructions submitted to Mollusk so far
    ret,            \* operation last performed: its arguments, the
                    \* InstructionResult Mollusk returned to it, its result
    written,        \* history: the record most recently written per address
    off_curve,      \* the hashed byte strings whose digest is not a curve point
    derived,        \* history: every derivation made, with its outcome
    fixture,        \* the SwapFixture a checkpoint holds, once it is built
    run,            \* the checkpoint being run, its position and verdict
    env             \* the process environment: STACKCLASS_REPOSITORY_DIR,
                    \* SBF_OUT_DIR, and the threads building an oracle

vars == <<accounts, next_unique, oracle_calls, ret, written, off_curve, derived,
          fixture, run, env>>

----------------------------------------------------------------------------
(* Bounds of the model                                                     *)

MaxUnique == 2      \* Pubkey::new_unique calls explored per run
MaxCalls == 2       \* oracle calls explored per run
MaxDeltas == 2      \* longest resulting_accounts list the oracle returns

----------------------------------------------------------------------------
(* Bytes, integers and options                                             *)

None == <<>>
Some(x) == <<x>>

Zeros(n) == [i \in 1..n |-> 0]

\* u64::to_le_bytes / i32::to_le_bytes: n bytes, least significant first
RECURSIVE to_le_bytes(_, _)
to_le_bytes(v, n) ==
    IF n = 0 THEN <<>> ELSE <<v % 256>> \o to_le_bytes(v \div 256, n - 1)

\* u32::to_be_bytes, as used by Pubkey::new_unique
RECURSIVE to_be_bytes(_, _)
to_be_bytes(v, n) ==
    IF n = 0 THEN <<>> ELSE to_be_bytes(v \div 256, n - 1) \o <<v % 256>>

RECURSIVE from_le_bytes(_)
from_le_bytes(s) ==
    IF s = <<>> THEN 0 ELSE Head(s) + 256 * from_le_bytes(Tail(s))

----------------------------------------------------------------------------
(* Addresses and account records                                           *)

\* Pubkey::default() and solana_system_program::id(): 32 zero bytes
DefaultPubkey == Zeros(32)
system_program_id == Zeros(32)

\* spl_token_interface::ID (TokenkegQfeZyiNwAJbNbGKPFXCWuBvf9Ss623VQ5DA)
token_program_id ==
    << 6, 221, 246, 225, 215, 101, 161, 147, 217, 203, 225, 70, 206, 235,
       121, 172, 28, 180, 133, 237, 95, 91, 55, 145, 58, 140, 245, 133, 126,
       255, 0, 169 >>

\* Pubkey::new_unique(): the i-th fresh address of the process
new_unique(i) == to_be_bytes(i, 4) \o Zeros(28)

\* Account { ..Default::default() }
DefaultAccount ==
    [lamports |-> 0, data |-> <<>>, owner |-> DefaultPubkey,
     executable |-> FALSE, rent_epoch |-> 0]

\* Rent::default().minimum_balance(len): (128 + len) * 3480 * 2
minimum_balance(len) == (128 + len) * 3480 * 2

create_system_account(lamports) ==
    [DefaultAccount EXCEPT !.lamports = lamports, !.owner = system_program_id]

empty_system_account_funded ==
    [DefaultAccount EXCEPT !.lamports = 1, !.owner = system_program_id,
                           !.data = <<>>]
empty_system_account ==
    [DefaultAccount EXCEPT !.lamports = 0, !.owner = system_program_id,
                           !.data = <<>>]

----------------------------------------------------------------------------
(* Address derivation: Pubkey::find_program_address                        *)

\* b"offer"
OFFER_SEED_PREFIX == <<111, 102, 102, 101, 114>>

\* b"ProgramDerivedAddress", the domain tag hashed after the program id
PDA_MARKER ==
    <<80, 114, 111, 103, 114, 97, 109, 68, 101, 114, 105, 118, 101, 100, 65,
      100, 100, 114, 101, 115, 115>>

\* u8::MAX, the first bump tried
MaxBump == (2 ^ 8) - 1

RECURSIVE Flatten(_)
Flatten(seeds) ==
    IF seeds = <<>> THEN <<>> ELSE Head(seeds) \o Flatten(Tail(seeds))

\* The digest of the hashed bytes.  SHA-256 is abstracted to a 32-byte
\* position-weighted checksum of the same input: a deterministic function
\* of every byte and of the length, with one lane per output byte.
RECURSIVE LaneSum(_, _, _)
LaneSum(pre, j, acc) ==
    IF j > Len(pre) THEN acc
    ELSE LaneSum(pre, j + 32, (acc + pre[j] * (2 * (j \div 32) + 3)) % 256)

hashv(pre) ==
    LET n == Len(pre)
    IN  [i \in 1..32 |-> LaneSum(pre, i, (7 * n + 13 * i) % 256)]

\* the bytes hashed for a candidate: seeds (bump included), program id, tag
Preimage(seeds, program_id) == Flatten(seeds) \o program_id \o PDA_MARKER

\* the candidate address for seeds (bump included) and a program id
Candidate(seeds, program_id) == hashv(Preimage(seeds, program_id))

\* bytes_are_curve_point applied to the digest of the hashed bytes pre
digest_is_curve_point(pre) == pre \notin off_curve

\* Pubkey::create_program_address: the candidate, or InvalidSeeds when the
\* candidate is a point of the curve
create_program_address(seeds, program_id) ==
    IF digest_is_curve_point(Preimage(seeds, program_id))
    THEN [status |-> "InvalidSeeds", address |-> DefaultPubkey]
    ELSE [status |-> "Ok", address |-> Candidate(seeds, program_id)]

\* Pubkey::try_find_program_address: bump_seed starts at u8::MAX and is
\* decremented after every on-curve candidate, for u8::MAX iterations.
\* The loop is evaluated in runs of LoopRun iterations (try_find_run is
\* the loop body repeated, try_find_from chains the runs), which keeps
\* the evaluation depth small; the iterations are the same, in order.
LoopRun == 16

RECURSIVE try_find_run(_, _, _, _)
try_find_run(seeds, program_id, bump_seed, iterations) ==
    IF iterations = 0 THEN None
    ELSE IF create_program_address(Append(seeds, <<bump_seed>>), program_id).status = "Ok"
         THEN Some(<<create_program_address(Append(seeds, <<bump_seed>>), program_id).address,
                     bump_seed>>)
         ELSE try_find_run(seeds, program_id, bump_seed - 1, iterations - 1)

\* a run that returned, or the rest of the loop
OrElse(found, rest) == IF found # None THEN found ELSE rest

RECURSIVE try_find_from(_, _, _, _)
try_find_from(seeds, program_id, bump_seed, iterations) ==
    IF iterations = 0 THEN None
    ELSE LET k == IF iterations < LoopRun THEN iterations ELSE LoopRun
         IN  OrElse(try_find_run(seeds, program_id, bump_seed, k),
                    try_find_from(seeds, program_id, bump_seed - k, iterations - k))

try_find_program_address(seeds, program_id) ==
    try_find_from(seeds, program_id, MaxBump, MaxBump)

\* Pubkey::find_program_address: the (address, bump) found, or a panic
\* ("Unable to find a viable program address bump seed") when none is
unwrap_or_panic(found) ==
    IF found = None
    THEN [status |-> "Panic", address |-> DefaultPubkey, bump |-> 0]
    ELSE [status |-> "Ok", address |-> found[1][1], bump |-> found[1][2]]

find_first_candidate(seeds, program_id) ==
    [status |-> "Ok", address |-> Candidate(Append(seeds, <<MaxBump>>), program_id),
     bump |-> MaxBump]
find_from_counter(seeds, program_id) ==
    [status |-> "Ok", address |-> new_unique(next_unique), bump |-> MaxBump]
find_program_address(seeds, program_id) ==
    unwrap_or_panic(try_find_program_address(seeds, program_id))

\* helpers::create_pda
create_pda(seeds, program_id) == find_program_address(seeds, program_id)

----------------------------------------------------------------------------
(* Instruction codec                                                       *)

\* Sha256 of the two instruction names, as Sha256::new().update(name)
\* .finalize() computes them
Sha256(name) ==
    CASE name = "global:make_offer" ->
           <<214, 98, 97, 35, 59, 12, 44, 178, 210, 244, 36, 164, 80, 35, 152,
             148, 176, 13, 149, 139, 168, 26, 216, 27, 0, 126, 165, 160, 188,
             157, 99, 129>>
      [] name = "global:take_offer" ->
           <<128, 156, 242, 207, 237, 192, 103, 240, 72, 212, 170, 182, 29,
             133, 11, 19, 18, 201, 217, 24, 188, 140, 102, 123, 241, 159, 139,
             219, 52, 244, 2, 209>>

anchor_discriminator(name) == SubSeq(Sha256(name), 1, 8)

build_make_offer_data_swapped(id, offered_amount, wanted_amount) ==
    anchor_discriminator("global:make_offer")
        \o to_le_bytes(id, 8)
        \o to_le_bytes(wanted_amount, 8)
        \o to_le_bytes(offered_amount, 8)
build_make_offer_data(id, offered_amount, wanted_amount) ==
    anchor_discriminator("global:make_offer")
        \o to_le_bytes(id, 8)
        \o to_le_bytes(offered_amount, 8)
        \o to_le_bytes(wanted_amount, 8)

build_take_offer_data == anchor_discriminator("global:take_offer")

----------------------------------------------------------------------------
(* Account ledger: SwapTestContext                                         *)

\* HashMap::insert: replace or insert
Insert(accts, pubkey, account) ==
    [k \in (DOMAIN accts) \cup {pubkey} |->
        IF k = pubkey THEN account ELSE accts[k]]

add_account(accts, pubkey, account) == Insert(accts, pubkey, account)

get_account_hiding_empty(accts, pubkey) ==
    IF pubkey \in DOMAIN accts /\ accts[pubkey].lamports > 0
    THEN Some(accts[pubkey]) ELSE None
get_account(accts, pubkey) ==
    IF pubkey \in DOMAIN accts THEN Some(accts[pubkey]) ELSE None

\* SwapFixture::get_account: Ok(account) or Err(AccountNotFound)
fixture_get_account(accts, pubkey) ==
    LET found == get_account(accts, pubkey)
    IN  IF found = None
        THEN [status |-> "AccountNotFound", value |-> None]
        ELSE [status |-> "Ok", value |-> found]

\* for (pubkey, account) in result.resulting_accounts { insert }
RECURSIVE InsertAll(_, _)
InsertAllSkipLast(accts, deltas) ==
    IF Len(deltas) <= 1 THEN accts
    ELSE InsertAll(Insert(accts, deltas[1][1], deltas[1][2]), Tail(deltas))
InsertAll(accts, deltas) ==
    IF deltas = <<>> THEN accts
    ELSE InsertAll(Insert(accts, deltas[1][1], deltas[1][2]), Tail(deltas))

\* execute_instruction / execute_and_validate after the oracle returned:
\* the new ledger and the value handed back to the caller
execute_replace_ledger(accts, result) ==
    IF result.program_result = "Err"
    THEN [accounts |-> accts, status |-> "ExecutionError"]
    ELSE [accounts |-> InsertAll(<< >>, result.resulting_accounts),
          status |-> "Ok"]
execute_apply_always(accts, result) ==
    IF result.program_result = "Err"
    THEN [accounts |-> InsertAll(accts, result.resulting_accounts),
          status |-> "ExecutionError"]
    ELSE [accounts |-> InsertAll(accts, result.resulting_accounts),
          status |-> "Ok"]
execute_instruction(accts, result) ==
    IF result.program_result = "Err"
    THEN [accounts |-> accts, status |-> "ExecutionError"]
    ELSE [accounts |-> InsertAll(accts, result.resulting_accounts),
          status |-> "Ok"]

\* create_token_account: the 82-byte buffer it fills in
create_token_account_data_swapped(owner, mint, amount) ==
    owner \o mint \o to_le_bytes(amount, 8) \o Zeros(82 - 72)
create_token_account_data(owner, mint, amount) ==
    mint \o owner \o to_le_bytes(amount, 8) \o Zeros(82 - 72)

create_token_account_record(owner, mint, amount) ==
    [DefaultAccount EXCEPT
        !.lamports = minimum_balance(Len(create_token_account_data(owner, mint, amount))),
        !.data = create_token_account_data(owner, mint, amount),
        !.owner = token_program_id]

----------------------------------------------------------------------------
(* Inputs explored by the ledger specification                             *)

ExtKey1 == [i \in 1..32 |-> 11]
ExtKey2 == [i \in 1..32 |-> 12]

KeyPool == {ExtKey1, new_unique(1)}

AccountPool ==
    { empty_system_account,
      [DefaultAccount EXCEPT !.data = <<7>>, !.owner = token_program_id] }

LamportPool == {1000000000}
AmountPool == {1000000}

\* the lists of (address, record) an oracle call may hand back: addresses
\* are pairwise different, as Mollusk returns one entry per account
DeltaLists ==
    { d \in UNION { [1..n -> KeyPool \X AccountPool] : n \in 0..MaxDeltas } :
        \A i, j \in DOMAIN d : i # j => d[i][1] # d[j][1] }

OracleResults ==
    [program_result : {"Ok", "Err"}, resulting_accounts : DeltaLists]

NoResult == [program_result |-> "Ok", resulting_accounts |-> <<>>]

Ret(op, pubkey, status, value) ==
    [op |-> op, pubkey |-> pubkey, args |-> <<>>, result |-> NoResult,
     status |-> status, value |-> value]

RetExec(op, result, status) ==
    [op |-> op, pubkey |-> None, args |-> <<>>, result |-> result,
     status |-> status, value |-> None]

\* history bookkeeping: what the last write to each address was
RECURSIVE LastWrite(_, _)
LastWrite(deltas, k) ==
    IF deltas = <<>> THEN None
    ELSE IF deltas[Len(deltas)][1] = k THEN Some(deltas[Len(deltas)][2])
    ELSE LastWrite(SubSeq(deltas, 1, Len(deltas) - 1), k)

DeltaKeys(deltas) == { deltas[i][1] : i \in DOMAIN deltas }

WrittenAfter(w, deltas) ==
    [k \in (DOMAIN w) \cup DeltaKeys(deltas) |->
        IF k \in DeltaKeys(deltas) THEN LastWrite(deltas, k)[1] ELSE w[k]]

----------------------------------------------------------------------------
(* Ledger specification: every public operation of SwapTestContext         *)

\* the process has not panicked (in an operation, or in checkpoint code)
Running == ret.status # "Panic" /\ run.pc # "panicked"

\* no checkpoint is being run
NoRun == [checkpoint |-> "", pc |-> "idle", verdict |-> ""]

\* the environment of a process that has set nothing and built no oracle
NoEnv ==
    [STACKCLASS_REPOSITORY_DIR |-> None, SBF_OUT_DIR |-> None, set_var_calls |-> 0,
     threads |-> << >>]

Init ==
    /\ accounts = << >>
    /\ next_unique = 1
    /\ oracle_calls = 0
    /\ ret = Ret("new", None, "Ok", None)
    /\ written = << >>
    /\ off_curve = {}
    /\ derived = {}
    /\ fixture = None
    /\ run = NoRun
    /\ env = NoEnv

AddAccount ==
    /\ Running
    /\ \E pubkey \in KeyPool, account \in AccountPool :
        /\ accounts' = add_account(accounts, pubkey, account)
        /\ written' = WrittenAfter(written, << <<pubkey, account>> >>)
        /\ ret' = Ret("add_account", Some(pubkey), "Ok", Some(account))
    /\ UNCHANGED <<next_unique, oracle_calls, off_curve, env, derived, fixture, run>>

GetAccount ==
    /\ Running
    /\ \E pubkey \in KeyPool \cup {new_unique(MaxUnique)} :
        ret' = Ret("get_account", Some(pubkey), "Ok", get_account(accounts, pubkey))
    /\ UNCHANGED <<accounts, next_unique, oracle_calls, written, off_curve, env, derived, fixture, run>>

FixtureGetAccount ==
    /\ Running
    /\ \E pubkey \in KeyPool \cup {new_unique(MaxUnique)} :
        LET r == fixture_get_account(accounts, pubkey)
        IN  ret' = Ret("fixture_get_account", Some(pubkey), r.status, r.value)
    /\ UNCHANGED <<accounts, next_unique, oracle_calls, written, off_curve, env, derived, fixture, run>>

CreateFundedAccount ==
    /\ Running
    /\ next_unique <= MaxUnique
    /\ \E lamports \in LamportPool :
        LET pubkey == new_unique(next_unique)
            account == [DefaultAccount EXCEPT !.lamports = lamports,
                                              !.owner = system_program_id]
        IN  /\ accounts' = add_account(accounts, pubkey, account)
            /\ written' = WrittenAfter(written, << <<pubkey, account>> >>)
            /\ ret' = Ret("create_funded_account", Some(pubkey), "Ok", Some(account))
    /\ next_unique' = next_unique + 1
    /\ UNCHANGED <<oracle_calls, off_curve, env, derived, fixture, run>>

CreateTokenAccount ==
    /\ Running
    /\ next_unique <= MaxUnique
    /\ \E owner \in {ExtKey1}, mint \in {ExtKey2}, amount \in AmountPool :
        LET pubkey == new_unique(next_unique)
            account == create_token_account_record(owner, mint, amount)
        IN  /\ accounts' = add_account(accounts, pubkey, account)
            /\ written' = WrittenAfter(written, << <<pubkey, account>> >>)
            /\ ret' = Ret("create_token_account", Some(pubkey), "Ok", Some(account))
    /\ next_unique' = next_unique + 1
    /\ UNCHANGED <<oracle_calls, off_curve, env, derived, fixture, run>>

ExecuteInstruction ==
    /\ Running
    /\ oracle_calls < MaxCalls
    /\ \E result \in OracleResults :
        LET out == execute_instruction(accounts, result)
        IN  /\ accounts' = out.accounts
            /\ written' = IF result.program_result = "Ok"
                          THEN WrittenAfter(written, result.resulting_accounts)
                          ELSE written
            /\ ret' = RetExec("execute_instruction", result, out.status)
    /\ oracle_calls' = oracle_calls + 1
    /\ UNCHANGED <<next_unique, off_curve, env, derived, fixture, run>>

\* process_and_validate_instruction runs the checks inside Mollusk, which
\* panics when one of them does not hold; otherwise as execute_instruction
ExecuteAndValidate ==
    /\ Running
    /\ oracle_calls < MaxCalls
    /\ \E result \in OracleResults \cup {NoResult}, checks_hold \in BOOLEAN :
        LET out == execute_instruction(accounts, result)
        IN  IF checks_hold
            THEN /\ result \in OracleResults
                 /\ accounts' = out.accounts
                 /\ written' = IF result.program_result = "Ok"
                               THEN WrittenAfter(written, result.resulting_accounts)
                               ELSE written
                 /\ ret' = RetExec("execute_and_validate", result, out.status)
            ELSE /\ result = NoResult
                 /\ ret' = RetExec("execute_and_validate", NoResult, "Panic")
                 /\ UNCHANGED <<accounts, written>>
    /\ oracle_calls' = oracle_calls + 1
    /\ UNCHANGED <<next_unique, off_curve, env, derived, fixture, run>>

Next ==
    \/ AddAccount
    \/ GetAccount
    \/ FixtureGetAccount
    \/ CreateFundedAccount
    \/ CreateTokenAccount
    \/ ExecuteInstruction
    \/ ExecuteAndValidate

Spec == Init /\ [][Next]_vars

----------------------------------------------------------------------------
(* Codec specification: the two encoders over argument values              *)

\* u64 arguments explored (TLC integers are 32 bits wide, so the values
\* stay below 2^31)
U64Pool == {0, 1, 256, 1000000, 2147483647}

InitCodec ==
    /\ accounts = << >>
    /\ next_unique = 1
    /\ oracle_calls = 0
    /\ ret = Ret("new", None, "Ok", None)
    /\ written = << >>
    /\ off_curve = {}
    /\ derived = {}
    /\ fixture = None
    /\ run = NoRun
    /\ env = NoEnv

BuildMakeOfferData ==
    /\ \E id \in U64Pool, offered_amount \in U64Pool, wanted_amount \in U64Pool :
        ret' = [Ret("build_make_offer_data", None, "Ok",
                    Some(build_make_offer_data(id, offered_amount, wanted_amount)))
                  EXCEPT !.args = <<id, offered_amount, wanted_amount>>]
    /\ UNCHANGED <<accounts, next_unique, oracle_calls, written, off_curve, env, derived, fixture, run>>

BuildTakeOfferData ==
    /\ ret' = Ret("build_take_offer_data", None, "Ok", Some(build_take_offer_data))
    /\ UNCHANGED <<accounts, next_unique, oracle_calls, written, off_curve, env, derived, fixture, run>>

NextCodec ==
    \/ BuildMakeOfferData
    \/ BuildTakeOfferData

SpecCodec == InitCodec /\ [][NextCodec]_vars

IsBytes(s) == \A i \in DOMAIN s : s[i] \in 0..255

\* C9: make-offer data is exactly 32 bytes: the first 8 bytes of the
\* digest of "global:" + "make_offer", then id, offered_amount and
\* wanted_amount as 8 little-endian bytes each, in that order; take-offer
\* data is exactly the first 8 bytes of the digest of "global:" +
\* "take_offer".
C9_InstructionEncoding ==
    /\ ret.op = "build_make_offer_data" =>
          LET data == ret.value[1]
          IN  /\ Len(data) = 32
              /\ IsBytes(data)
              /\ \A i \in 1..8 : data[i] = Sha256("global:" \o "make_offer")[i]
              /\ from_le_bytes(SubSeq(data, 9, 16)) = ret.args[1]
              /\ from_le_bytes(SubSeq(data, 17, 24)) = ret.args[2]
              /\ from_le_bytes(SubSeq(data, 25, 32)) = ret.args[3]
    /\ ret.op = "build_take_offer_data" =>
          LET data == ret.value[1]
          IN  /\ Len(data) = 8
              /\ \A i \in 1..8 : data[i] = Sha256("global:" \o "take_offer")[i]

\* make-offer data was built from three different multi-byte arguments
C9_Witness ==
    /\ ret.op = "build_make_offer_data"
    /\ ret.args = <<256, 1000000, 2147483647>>
    /\ SubSeq(ret.value[1], 9, 16) = <<0, 1, 0, 0, 0, 0, 0, 0>>
    /\ SubSeq(ret.value[1], 17, 24) = <<64, 66, 15, 0, 0, 0, 0, 0>>

----------------------------------------------------------------------------
(* Derivation specification: create_pda over seed lists and curve shapes   *)

ProgramKey == [i \in 1..32 |-> 21]

\* seed lists explored: the offer seeds and a short free-form list
PdaSeedLists ==
    << <<OFFER_SEED_PREFIX, new_unique(1), to_le_bytes(1, 8)>>,
       << <<1, 2>>, <<3>> >> >>

\* the bumps whose candidate is off the curve, per seed list: none at all,
\* the first one tried, the second one (and a lower one), only bump 1,
\* only bump 0
BumpFamilies == { {}, {MaxBump}, {MaxBump - 1, 7}, {1}, {0} }

OffCurveFor(seeds, program_id, bumps) ==
    { Preimage(Append(seeds, <<b>>), program_id) : b \in bumps }

InitPda ==
    /\ accounts = << >>
    /\ next_unique = 1
    /\ oracle_calls = 0
    /\ ret = Ret("new", None, "Ok", None)
    /\ written = << >>
    /\ derived = {}
    /\ fixture = None
    /\ run = NoRun
    /\ env = NoEnv
    /\ \E f \in [DOMAIN PdaSeedLists -> BumpFamilies] :
          off_curve = UNION { OffCurveFor(PdaSeedLists[i], ProgramKey, f[i]) :
                                i \in DOMAIN PdaSeedLists }

\* one entry of the derivation history; at is the value of the new_unique
\* counter when the derivation was made
Derivation(seeds, program_id, r) ==
    [seeds |-> seeds, program_id |-> program_id, status |-> r.status,
     address |-> r.address, bump |-> r.bump, at |-> next_unique]

CreatePda ==
    /\ Running
    /\ \E i \in DOMAIN PdaSeedLists :
        \E r \in {create_pda(PdaSeedLists[i], ProgramKey)} :
            /\ ret' = [Ret("create_pda", Some(r.address), r.status, Some(r.bump))
                          EXCEPT !.args = PdaSeedLists[i]]
            /\ derived' = derived \cup {Derivation(PdaSeedLists[i], ProgramKey, r)}
    /\ UNCHANGED <<accounts, next_unique, oracle_calls, written, off_curve, env,
                   fixture, run>>

NextPda ==
    \/ CreatePda
    \/ CreateFundedAccount

SpecPda == InitPda /\ [][NextPda]_vars

----------------------------------------------------------------------------
(* Properties of address derivation                                        *)

OffCurveAt(seeds, program_id, b) ==
    ~digest_is_curve_point(Preimage(Append(seeds, <<b>>), program_id))

C7_LargestOffCurveBump ==
    \A d \in derived :
        d.status = "Ok" =>
            /\ d.bump \in 0..MaxBump
            /\ OffCurveAt(d.seeds, d.program_id, d.bump)
            /\ d.address = Candidate(Append(d.seeds, <<d.bump>>), d.program_id)
            /\ \A b \in (d.bump + 1)..MaxBump : ~OffCurveAt(d.seeds, d.program_id, b)

\* a derivation that had to decrement: it returned a bump below 255 while
\* a still smaller bump is off-curve too
C7_Witness ==
    \E d \in derived :
        /\ d.status = "Ok"
        /\ d.bump < MaxBump
        /\ \E b \in 0..(d.bump - 1) : OffCurveAt(d.seeds, d.program_id, b)

\* C8: when no bump in 0..255 gives an off-curve candidate, derivation ends
\* in an error value returned to the caller and does not panic.
C8_ExhaustionIsReported ==
    \A d \in derived :
        (\A b \in 0..MaxBump : ~OffCurveAt(d.seeds, d.program_id, b))
            => d.status # "Panic"

----------------------------------------------------------------------------
(* Properties of the ledger and of the oracle adapter                      *)

ExecOps == {"execute_instruction", "execute_and_validate"}

\* a step that submitted an instruction to the oracle and got a result back
ExecStep == oracle_calls' = oracle_calls + 1 /\ ret'.status # "Panic"

ProbeKeys == KeyPool \cup { new_unique(i) : i \in 1..(MaxUnique + 1) }

\* C1: when the oracle reports a program failure, execute_instruction and
\* execute_and_validate return ExecutionError and the ledger is exactly
\* what it was before the call; nothing the oracle returned is written.
C1_FailedExecutionIsAtomic ==
    [][ (ExecStep /\ ret'.result.program_result = "Err")
            => (ret'.status = "ExecutionError" /\ accounts' = accounts) ]_vars

\* a failed call whose returned accounts differ from the ledger contents
C1_Witness ==
    /\ ret.op \in ExecOps
    /\ ret.result.program_result = "Err"
    /\ ret.status = "ExecutionError"
    /\ \E i \in DOMAIN ret.result.resulting_accounts :
          get_account(accounts, ret.result.resulting_accounts[i][1])
              # Some(ret.result.resulting_accounts[i][2])

\* C2: when the oracle reports success, the call returns Ok, every returned
\* (address, record) pair is stored under its address, and every address
\* the oracle did not return keeps the record (or absence) it had.
C2_SuccessAppliesDeltas ==
    [][ (ExecStep /\ ret'.result.program_result = "Ok")
            => LET deltas == ret'.result.resulting_accounts
               IN  /\ ret'.status = "Ok"
                   /\ \A i \in DOMAIN deltas :
                         get_account(accounts', deltas[i][1]) = Some(deltas[i][2])
                   /\ \A k \in (ProbeKeys \cup DOMAIN accounts \cup DOMAIN accounts')
                                \ DeltaKeys(deltas) :
                         get_account(accounts', k) = get_account(accounts, k) ]_vars

\* a successful call that returned two entries while the ledger also
\* holds an account the oracle did not return
C2_Witness ==
    /\ ret.op = "execute_instruction"
    /\ ret.status = "Ok"
    /\ Len(ret.result.resulting_accounts) >= 2
    /\ (DOMAIN accounts) \ DeltaKeys(ret.result.resulting_accounts) # {}

\* C3: the set of addresses present in the ledger never shrinks.
C3_NoAccountDeleted ==
    [][ (DOMAIN accounts) \subseteq (DOMAIN accounts') ]_vars

\* a successful execution returned an emptied (closed) account for an
\* address, and that address and two others are still in the ledger
C3_Witness ==
    /\ ret.op \in ExecOps
    /\ ret.status = "Ok"
    /\ \E i \in DOMAIN ret.result.resulting_accounts :
          /\ ret.result.resulting_accounts[i][2] = empty_system_account
          /\ ret.result.resulting_accounts[i][1] \in DOMAIN accounts
    /\ Cardinality(DOMAIN accounts) >= 3

\* C5: get_account returns the record most recently written to the address
\* and none for an address never inserted; an inserted empty placeholder is
\* present; SwapFixture::get_account reports absence as AccountNotFound.
LatestWritten(k) == IF k \in DOMAIN written THEN Some(written[k]) ELSE None

C5_LedgerIsExplicitMap ==
    /\ \A k \in ProbeKeys :
          /\ get_account(accounts, k) = LatestWritten(k)
          /\ fixture_get_account(accounts, k).status =
                IF k \in DOMAIN written THEN "Ok" ELSE "AccountNotFound"
          /\ fixture_get_account(accounts, k).value = LatestWritten(k)
    /\ ret.op = "get_account" => ret.value = LatestWritten(ret.pubkey[1])
    /\ ret.op = "fixture_get_account" =>
          /\ ret.value = LatestWritten(ret.pubkey[1])
          /\ (ret.status = "AccountNotFound") = (ret.pubkey[1] \notin DOMAIN written)

\* an absent address was looked up while an empty placeholder is present
C5_Witness ==
    /\ ret.op = "fixture_get_account"
    /\ ret.status = "AccountNotFound"
    /\ \E k \in DOMAIN accounts :
          /\ accounts[k] = empty_system_account
          /\ get_account(accounts, k) = Some(empty_system_account)

----------------------------------------------------------------------------
(* Token, mint and offer records                                           *)

\* spl_associated_token_account_interface program id
\* (ATokenGPvbdGVxr1b2hvZbsiqW5xWH25efTNsLJA8knL)
associated_token_program_id ==
    << 140, 151, 37, 143, 78, 36, 137, 241, 187, 61, 16, 41, 20, 142, 13, 131,
       11, 90, 19, 153, 218, 255, 16, 132, 4, 142, 123, 216, 219, 233, 248, 89 >>

\* solana_sdk_ids::native_loader::id()
native_loader_id ==
    << 5, 135, 132, 191, 20, 139, 164, 40, 47, 176, 18, 87, 72, 136, 169, 241,
       83, 160, 125, 173, 247, 101, 192, 69, 92, 154, 151, 3, 128, 0, 0, 0 >>

\* solana_sdk_ids::bpf_loader_upgradeable::id()
bpf_loader_upgradeable_id ==
    << 2, 168, 246, 145, 78, 136, 161, 176, 226, 16, 21, 62, 247, 99, 174, 43,
       0, 194, 185, 61, 22, 193, 36, 210, 192, 83, 122, 16, 4, 128, 0, 0 >>

\* the account Mollusk hands out for a program: executable and owned by its
\* loader (the loader-specific data bytes are not modelled)
program_account_plain(loader) ==
    [DefaultAccount EXCEPT !.lamports = 1, !.owner = loader]
program_account(loader) ==
    [DefaultAccount EXCEPT !.lamports = 1, !.owner = loader, !.executable = TRUE]

\* COption<Pubkey> and COption<u64> as Pack lays them out: 4-byte tag, body
pack_coption_key(o) ==
    IF o = None THEN Zeros(4) \o Zeros(32) ELSE <<1, 0, 0, 0>> \o o[1]
pack_coption_u64(o) ==
    IF o = None THEN Zeros(4) \o Zeros(8) ELSE <<1, 0, 0, 0>> \o to_le_bytes(o[1], 8)

\* Mint::pack: 82 bytes
Mint_pack(mint) ==
    pack_coption_key(mint.mint_authority)
        \o to_le_bytes(mint.supply, 8)
        \o <<mint.decimals>>
        \o <<IF mint.is_initialized THEN 1 ELSE 0>>
        \o pack_coption_key(mint.freeze_authority)

\* AccountState::Initialized
AccountState_Initialized == 1

\* spl_token Account::pack: 165 bytes
TokenAccount_pack(t) ==
    t.mint \o t.owner
        \o to_le_bytes(t.amount, 8)
        \o pack_coption_key(t.delegate)
        \o <<t.state>>
        \o pack_coption_u64(t.is_native)
        \o to_le_bytes(t.delegated_amount, 8)
        \o pack_coption_key(t.close_authority)

\* token::create_account_for_mint
create_account_for_mint(mint) ==
    [DefaultAccount EXCEPT !.lamports = minimum_balance(Len(Mint_pack(mint))),
                           !.data = Mint_pack(mint),
                           !.owner = token_program_id]

\* token::create_account_for_token_account
create_account_for_token_account(t) ==
    [DefaultAccount EXCEPT !.lamports = minimum_balance(Len(TokenAccount_pack(t))),
                           !.data = TokenAccount_pack(t),
                           !.owner = token_program_id]

\* the Mint and TokenAccount values new_with_amounts writes out
MintOf(authority, supply, decimals) ==
    [mint_authority |-> Some(authority), supply |-> supply, decimals |-> decimals,
     is_initialized |-> TRUE, freeze_authority |-> None]

TokenAccountOf_swapped(mint, owner, amount) ==
    [mint |-> owner, owner |-> mint, amount |-> amount, delegate |-> None,
     state |-> AccountState_Initialized, is_native |-> None,
     delegated_amount |-> 0, close_authority |-> None]
TokenAccountOf(mint, owner, amount) ==
    [mint |-> mint, owner |-> owner, amount |-> amount, delegate |-> None,
     state |-> AccountState_Initialized, is_native |-> None,
     delegated_amount |-> 0, close_authority |-> None]

\* get_associated_token_address_with_program_id: the address derived from
\* (wallet, token program, mint) under the associated-token program
get_associated_token_address_with_program_id(wallet, mint, token_program) ==
    find_program_address(<<wallet, token_program, mint>>, associated_token_program_id)

----------------------------------------------------------------------------
(* Decoders                                                                *)

Ok(v) == [status |-> "Ok", value |-> Some(v)]
Err(e) == [status |-> e, value |-> None]

read_pubkey(data) ==
    IF Len(data) # 32 THEN Err("ValidationError") ELSE Ok(data)

read_u64(data) ==
    IF Len(data) # 8 THEN Err("ValidationError") ELSE Ok(from_le_bytes(data))

\* &data[a..b]: the bytes at [a, b), or a panic when the range does not
\* lie inside the data (positions a+1..b here)
slice(data, a, b) ==
    IF a > b \/ b > Len(data) THEN Err("Panic") ELSE Ok(SubSeq(data, a + 1, b))

\* data[i], or a panic when i is out of bounds
index(data, i) ==
    IF i >= Len(data) THEN Err("Panic") ELSE Ok(data[i + 1])

\* read_u64(&data[a..b]) and read_pubkey(&data[a..b])
read_u64_at(data, a, b) ==
    IF slice(data, a, b).status # "Ok" THEN slice(data, a, b)
    ELSE read_u64(slice(data, a, b).value[1])

read_pubkey_at(data, a, b) ==
    IF slice(data, a, b).status # "Ok" THEN slice(data, a, b)
    ELSE read_pubkey(slice(data, a, b).value[1])

token_account_amount_short(account) ==
    IF Len(account.data) < 64 THEN Err("ValidationError")
    ELSE read_u64_at(account.data, 64, 72)
token_account_amount(account) ==
    IF Len(account.data) < 72 THEN Err("ValidationError")
    ELSE read_u64_at(account.data, 64, 72)

token_account_owner(account) ==
    IF Len(account.data) < 64 THEN Err("ValidationError")
    ELSE read_pubkey_at(account.data, 32, 64)

token_account_mint(account) ==
    IF Len(account.data) < 32 THEN Err("ValidationError")
    ELSE read_pubkey_at(account.data, 0, 32)

\* the first result of a sequence that is not Ok, if there is one (the ?
\* operator applied to each in turn)
RECURSIVE FirstFailure(_)
FirstFailure(results) ==
    IF results = <<>> THEN None
    ELSE IF Head(results).status # "Ok" THEN Some(Head(results))
    ELSE FirstFailure(Tail(results))

offer_data_from_account(account) ==
    IF Len(account.data) < 8 + 8 + 32 + 32 + 32 + 8 + 1 THEN Err("ValidationError")
    ELSE LET id == read_u64_at(account.data, 8, 16)
             maker == read_pubkey_at(account.data, 16, 48)
             token_mint_a == read_pubkey_at(account.data, 48, 80)
             token_mint_b == read_pubkey_at(account.data, 80, 112)
             token_b_wanted_amount == read_u64_at(account.data, 112, 120)
             bump == index(account.data, 120)
             failure == FirstFailure(<<id, maker, token_mint_a, token_mint_b,
                                       token_b_wanted_amount, bump>>)
         IN  IF failure # None THEN failure[1]
             ELSE Ok([id |-> id.value[1],
                      maker |-> maker.value[1],
                      token_mint_a |-> token_mint_a.value[1],
                      token_mint_b |-> token_mint_b.value[1],
                      token_b_wanted_amount |-> token_b_wanted_amount.value[1],
                      bump |-> bump.value[1]])

----------------------------------------------------------------------------
(* SwapFixture: instructions                                               *)

AccountMeta_new_frozen(pubkey, is_signer) ==
    [pubkey |-> pubkey, is_signer |-> is_signer, is_writable |-> FALSE]
AccountMeta_new_signing(pubkey, is_signer) ==
    [pubkey |-> pubkey, is_signer |-> TRUE, is_writable |-> TRUE]
AccountMeta_new(pubkey, is_signer) ==
    [pubkey |-> pubkey, is_signer |-> is_signer, is_writable |-> TRUE]
AccountMeta_new_readonly(pubkey, is_signer) ==
    [pubkey |-> pubkey, is_signer |-> is_signer, is_writable |-> FALSE]

create_swap_instruction(program_id, data, metas) ==
    [program_id |-> program_id, accounts |-> metas, data |-> data]

make_offer_instruction(f) ==
    create_swap_instruction(
        f.program_id,
        build_make_offer_data(f.offer_id, f.offered_amount, f.wanted_amount),
        << AccountMeta_new(f.maker, TRUE),
           AccountMeta_new_readonly(f.token_mint_a, FALSE),
           AccountMeta_new_readonly(f.token_mint_b, FALSE),
           AccountMeta_new(f.maker_token_account_a, FALSE),
           AccountMeta_new(f.offer, FALSE),
           AccountMeta_new(f.vault, FALSE),
           AccountMeta_new_readonly(system_program_id, FALSE),
           AccountMeta_new_readonly(f.token_program, FALSE),
           AccountMeta_new_readonly(f.associated_token_program, FALSE) >>)

take_offer_instruction(f) ==
    create_swap_instruction(
        f.program_id,
        build_take_offer_data,
        << AccountMeta_new(f.taker, TRUE),
           AccountMeta_new(f.maker, FALSE),
           AccountMeta_new_readonly(f.token_mint_a, FALSE),
           AccountMeta_new_readonly(f.token_mint_b, FALSE),
           AccountMeta_new(f.taker_token_account_a, FALSE),
           AccountMeta_new(f.taker_token_account_b, FALSE),
           AccountMeta_new(f.maker_token_account_b, FALSE),
           AccountMeta_new(f.offer, FALSE),
           AccountMeta_new(f.vault, FALSE),
           AccountMeta_new_readonly(system_program_id, FALSE),
           AccountMeta_new_readonly(f.token_program, FALSE),
           AccountMeta_new_readonly(f.associated_token_program, FALSE) >>)

\* run_security_checks: bad_instruction.accounts[1] = AccountMeta::new(taker, false)
\* (position 1 of the source is position 2 here)
bad_take_offer_instruction_wide(f) ==
    [take_offer_instruction(f) EXCEPT !.accounts[2] = AccountMeta_new(f.taker, FALSE),
                                      !.accounts[1] = AccountMeta_new(f.taker, FALSE)]
bad_take_offer_instruction_same_maker(f) ==
    [take_offer_instruction(f) EXCEPT !.accounts[2] = AccountMeta_new(f.maker, FALSE)]
bad_take_offer_instruction(f) ==
    [take_offer_instruction(f) EXCEPT !.accounts[2] = AccountMeta_new(f.taker, FALSE)]

----------------------------------------------------------------------------
(* Program loader: the repository on disk, the binary and the program id   *)

\* Text is a sequence of one-character strings.
Min(S) == CHOOSE x \in S : \A y \in S : x <= y
Max(S) == CHOOSE x \in S : \A y \in S : x >= y

is_whitespace(c) == c \in {" ", "\t", "\r", "\n"}

\* str::trim
trim(s) ==
    LET solid == { i \in DOMAIN s : ~is_whitespace(s[i]) }
    IN  IF solid = {} THEN << >> ELSE SubSeq(s, Min(solid), Max(solid))

\* str::trim_matches(c)
trim_matches(s, c) ==
    LET kept == { i \in DOMAIN s : s[i] # c }
    IN  IF kept = {} THEN << >> ELSE SubSeq(s, Min(kept), Max(kept))

starts_with(s, prefix) ==
    Len(s) >= Len(prefix) /\ SubSeq(s, 1, Len(prefix)) = prefix

ends_with(s, suffix) ==
    Len(s) >= Len(suffix) /\ SubSeq(s, Len(s) - Len(suffix) + 1, Len(s)) = suffix

\* str::split_once(c)
split_once(s, c) ==
    LET at == { i \in DOMAIN s : s[i] = c }
    IN  IF at = {} THEN None
        ELSE Some(<<SubSeq(s, 1, Min(at) - 1), SubSeq(s, Min(at) + 1, Len(s))>>)

\* str::lines: the pieces between line feeds, without a carriage return
\* at their end; a final line feed starts no further line
RECURSIVE lines_from(_, _)
lines_from(s, start) ==
    IF start > Len(s) THEN << >>
    ELSE LET feeds == { i \in start..Len(s) : s[i] = "\n" }
             stop == IF feeds = {} THEN Len(s) + 1 ELSE Min(feeds)
             piece == SubSeq(s, start, stop - 1)
         IN  << IF ends_with(piece, <<"\r">>) /\ feeds # {}
                THEN SubSeq(piece, 1, Len(piece) - 1) ELSE piece >>
             \o lines_from(s, stop + 1)

lines(s) == lines_from(s, 1)

\* the base58 alphabet
Base58 ==
    <<"1", "2", "3", "4", "5", "6", "7", "8", "9", "A", "B", "C", "D", "E",
    "F", "G", "H", "J", "K", "L", "M", "N", "P", "Q", "R", "S", "T", "U",
    "V", "W", "X", "Y", "Z", "a", "b", "c", "d", "e", "f", "g", "h", "i",
    "j", "k", "m", "n", "o", "p", "q", "r", "s", "t", "u", "v", "w", "x",
    "y", "z">>

PUBKEY_BYTES == 32
MAX_BASE58_LEN == 44

b58_digit(c) == (CHOOSE i \in DOMAIN Base58 : Base58[i] = c) - 1

\* bytes (least significant first) times 58 plus carry
RECURSIVE b58_mul_add(_, _)
b58_mul_add(bytes, carry) ==
    IF bytes = << >>
    THEN IF carry = 0 THEN << >>
         ELSE <<carry % 256>> \o b58_mul_add(<< >>, carry \div 256)
    ELSE <<(Head(bytes) * 58 + carry) % 256>>
         \o b58_mul_add(Tail(bytes), (Head(bytes) * 58 + carry) \div 256)

RECURSIVE b58_fold(_, _, _)
b58_fold(s, i, bytes) ==
    IF i > Len(s) THEN bytes
    ELSE b58_fold(s, i + 1, b58_mul_add(bytes, b58_digit(s[i])))

Reverse(s) == [i \in 1..Len(s) |-> s[Len(s) + 1 - i]]

\* base58 decoding: one zero byte for each leading "1", then the number
\* the other digits spell, most significant byte first
b58_decode(s) ==
    IF \E i \in DOMAIN s : \A j \in DOMAIN Base58 : Base58[j] # s[i]
    THEN Err("Invalid")
    ELSE LET ones == { i \in DOMAIN s : \A j \in 1..i : s[j] = "1" }
             zeros == Cardinality(ones)
         IN  Ok(Zeros(zeros) \o Reverse(b58_fold(s, zeros + 1, << >>)))

\* Pubkey::from_str, after the length test: the decoded bytes are a key
\* when there are 32 of them
pubkey_from_decoded(decoded) ==
    IF decoded.status # "Ok" THEN Err("Invalid")
    ELSE IF Len(decoded.value[1]) # PUBKEY_BYTES THEN Err("WrongSize")
    ELSE Ok(decoded.value[1])

\* Pubkey::from_str
Pubkey_from_str(s) ==
    IF Len(s) > MAX_BASE58_LEN THEN Err("WrongSize")
    ELSE pubkey_from_decoded(b58_decode(s))

\* one line of find_program_id: the section state after it, and the value
\* it yields if it is the line that ends the search
programs_word == <<"p", "r", "o", "g", "r", "a", "m", "s">>

is_section_header(line) == starts_with(line, <<"[">>) /\ ends_with(line, <<"]">>)

section_of(line) == SubSeq(line, 2, Len(line) - 1)

is_programs_section(section) ==
    section = programs_word \/ starts_with(section, programs_word \o <<".">>)

key_matches_containing(key, program_name) ==
    \E i \in 1..Len(key) : starts_with(SubSeq(key, i, Len(key)), program_name)
key_matches(key, program_name) == trim(key) = program_name

line_value(line, program_name) ==
    IF split_once(line, "=") = None THEN None
    ELSE IF ~key_matches(split_once(line, "=")[1][1], program_name) THEN None
    ELSE IF trim_matches(trim(split_once(line, "=")[1][2]), "\"") = << >> THEN None
    ELSE Some(trim_matches(trim(split_once(line, "=")[1][2]), "\""))

\* find_program_id
RECURSIVE find_program_id_from(_, _, _)
find_program_id_from(raw_lines, program_name, in_programs_section) ==
    IF raw_lines = << >> THEN None
    ELSE LET line == trim(Head(raw_lines))
         IN  IF is_section_header(line)
             THEN find_program_id_from(Tail(raw_lines), program_name,
                                       is_programs_section(section_of(line)))
             ELSE IF ~in_programs_section \/ line = << >> \/ starts_with(line, <<"#">>)
             THEN find_program_id_from(Tail(raw_lines), program_name, in_programs_section)
             ELSE IF line_value(line, program_name) # None
             THEN line_value(line, program_name)
             ELSE find_program_id_from(Tail(raw_lines), program_name, in_programs_section)

find_program_id(toml, program_name) ==
    find_program_id_from(lines(toml), program_name, FALSE)

\* The repository on disk: a directory that may exist, with its entries in
\* the order read_dir yields them.  A name is its dot-separated parts.
File(name) == [name |-> name, kind |-> "file", entries |-> << >>, content |-> << >>]
FileWith(name, content) ==
    [name |-> name, kind |-> "file", entries |-> << >>, content |-> content]
Dir(name, entries) ==
    [name |-> name, kind |-> "dir", entries |-> entries, content |-> << >>]

\* the entry a relative path leads to, if any
RECURSIVE lookup(_, _)
lookup(entries, rel) ==
    LET hits == { i \in DOMAIN entries : entries[i].name = Head(rel) }
    IN  IF hits = {} THEN None
        ELSE IF Len(rel) = 1 THEN Some(entries[Min(hits)])
        ELSE IF entries[Min(hits)].kind # "dir" THEN None
        ELSE lookup(entries[Min(hits)].entries, Tail(rel))

\* Path::exists for repo_dir.join(rel)
path_exists(repo, rel) ==
    repo.exists /\ (rel = << >> \/ lookup(repo.entries, rel) # None)

\* Path::join
join(repo, rel) == <<repo.root>> \o rel

\* Path::extension of the last name of a path
extension(path) ==
    LET name == path[Len(path)]
    IN  IF Len(name) < 2 \/ (Len(name) = 2 /\ name[1] = "") THEN None
        ELSE Some(name[Len(name)])

\* Path::file_stem
file_stem(path) ==
    LET name == path[Len(path)]
    IN  IF extension(path) = None THEN name ELSE SubSeq(name, 1, Len(name) - 1)

\* Path::parent
parent(path) == IF Len(path) <= 1 THEN None ELSE Some(SubSeq(path, 1, Len(path) - 1))

RECURSIVE find_so_file_recursive(_, _)
find_so_file_recursive(dir, entries) ==
    IF entries = << >> THEN None
    ELSE IF Head(entries).kind = "dir"
    THEN IF find_so_file_recursive(Append(dir, Head(entries).name),
                                   Head(entries).entries) # None
         THEN find_so_file_recursive(Append(dir, Head(entries).name),
                                     Head(entries).entries)
         ELSE find_so_file_recursive(dir, Tail(entries))
    ELSE IF extension(Append(dir, Head(entries).name)) = Some("so")
    THEN Some(Append(dir, Head(entries).name))
    ELSE find_so_file_recursive(dir, Tail(entries))

\* the list found of find_so_file_in_target
RECURSIVE found_in_target(_, _)
found_in_target(dir, entries) ==
    IF entries = << >> THEN << >>
    ELSE IF Head(entries).kind = "dir"
    THEN find_so_file_recursive(Append(dir, Head(entries).name), Head(entries).entries)
         \o found_in_target(dir, Tail(entries))
    ELSE IF extension(Append(dir, Head(entries).name)) = Some("so")
    THEN <<Append(dir, Head(entries).name)>> \o found_in_target(dir, Tail(entries))
    ELSE found_in_target(dir, Tail(entries))

target_rel == << <<"target">> >>

find_so_file_in_target(repo) ==
    IF ~path_exists(repo, target_rel) THEN None
    ELSE IF lookup(repo.entries, target_rel)[1].kind # "dir" THEN None
    ELSE LET found == found_in_target(join(repo, target_rel),
                                      lookup(repo.entries, target_rel)[1].entries)
         IN  IF found = << >> THEN None ELSE Some(Head(found))

deploy_rel == << <<"target">>, <<"deploy">>, <<"swap", "so">> >>
sbf_rel == << <<"target">>, <<"sbf-solana-solana">>, <<"release">>, <<"swap", "so">> >>
artifacts_rel == << <<"artifacts">>, <<"swap", "so">> >>

load_swap_program_artifacts_first(repo) ==
    IF ~path_exists(repo, << >>) THEN Err("RepoNotFound")
    ELSE IF path_exists(repo, deploy_rel) THEN Ok(join(repo, deploy_rel))
    ELSE IF path_exists(repo, artifacts_rel) THEN Ok(join(repo, artifacts_rel))
    ELSE IF path_exists(repo, sbf_rel) THEN Ok(join(repo, sbf_rel))
    ELSE IF find_so_file_in_target(repo) # None THEN Ok(find_so_file_in_target(repo)[1])
    ELSE Err("ProgramNotFound")
load_swap_program(repo) ==
    IF ~path_exists(repo, << >>) THEN Err("RepoNotFound")
    ELSE IF path_exists(repo, deploy_rel) THEN Ok(join(repo, deploy_rel))
    ELSE IF path_exists(repo, sbf_rel) THEN Ok(join(repo, sbf_rel))
    ELSE IF path_exists(repo, artifacts_rel) THEN Ok(join(repo, artifacts_rel))
    ELSE IF find_so_file_in_target(repo) # None THEN Ok(find_so_file_in_target(repo)[1])
    ELSE Err("ProgramNotFound")

\* check_program_available
check_program_available(repo) == load_swap_program(repo).status

anchor_rel == << <<"Anchor", "toml">> >>
swap_word == <<"s", "w", "a", "p">>

\* std::fs::read_to_string
read_to_string(repo, rel) ==
    IF lookup(repo.entries, rel)[1].kind # "file" THEN Err("IoError")
    ELSE Ok(lookup(repo.entries, rel)[1].content)

\* .map_err(|_| ProgramLoadError::InvalidProgramId(program_id))
invalid_program_id(parsed) ==
    IF parsed.status # "Ok" THEN Err("InvalidProgramId") ELSE parsed

\* load_swap_program_id once the configuration is read: the value found,
\* or ProgramIdNotFound, parsed as an address
program_id_from(program_id) ==
    IF program_id = None THEN Err("ProgramIdNotFound")
    ELSE invalid_program_id(Pubkey_from_str(program_id[1]))

load_swap_program_id(repo) ==
    IF ~path_exists(repo, << >>) THEN Err("RepoNotFound")
    ELSE IF ~path_exists(repo, anchor_rel) THEN Err("AnchorTomlNotFound")
    ELSE IF read_to_string(repo, anchor_rel).status # "Ok"
    THEN Err(read_to_string(repo, anchor_rel).status)
    ELSE program_id_from(find_program_id(read_to_string(repo, anchor_rel).value[1],
                                         swap_word))

\* a path is a regular file of one of the repositories on disk
is_file(disk, path) ==
    \E repo \in disk :
        /\ repo.exists
        /\ Len(path) > 1
        /\ repo.root = path[1]
        /\ lookup(repo.entries, Tail(path)) # None
        /\ lookup(repo.entries, Tail(path))[1].kind = "file"

\* std::env::set_var("SBF_OUT_DIR", program_dir)
set_sbf_out_dir(e, program_dir) ==
    [e EXCEPT !.SBF_OUT_DIR = Some(program_dir), !.set_var_calls = @ + 1]

\* Mollusk::new(program_id, program_name): the binary is read from
\* program_name.so in the directory SBF_OUT_DIR names when it is read
Mollusk_new(disk, e, program_name) ==
    IF e.SBF_OUT_DIR = None THEN Err("Panic")
    ELSE IF ~is_file(disk, Append(e.SBF_OUT_DIR[1], Append(program_name, "so")))
    THEN Err("Panic")
    ELSE Ok(Append(e.SBF_OUT_DIR[1], Append(program_name, "so")))

\* create_swap_mollusk after load_swap_program
mollusk_for(disk, e, program_path) ==
    IF program_path.status # "Ok"
    THEN [status |-> program_path.status, loaded |-> None, env |-> e]
    ELSE IF parent(program_path.value[1]) = None
    THEN [status |-> "ProgramDirNotFound", loaded |-> None, env |-> e]
    ELSE LET configured == set_sbf_out_dir(e, parent(program_path.value[1])[1])
             mollusk == Mollusk_new(disk, configured, file_stem(program_path.value[1]))
         IN  [status |-> mollusk.status, loaded |-> mollusk.value, env |-> configured]

\* create_swap_mollusk run without interruption: the outcome, the binary
\* the oracle read and the environment it leaves
create_swap_mollusk(disk, repo, e) == mollusk_for(disk, e, load_swap_program(repo))

----------------------------------------------------------------------------
(* Loader specification: the loaders over repositories on disk             *)

\* the address texts used in configuration files: the program key, the
\* default address, a second key, a text that is not base58 and the text
\* of a 31-byte value
ProgramKeyText ==
    <<"2", "R", "J", "D", "1", "K", "n", "D", "R", "G", "E", "k", "v", "u",
    "F", "f", "A", "G", "r", "J", "7", "P", "D", "2", "8", "L", "R", "E",
    "9", "L", "R", "D", "j", "Z", "z", "n", "D", "y", "w", "a", "g", "z",
    "m", "r">>
DefaultKeyText == [i \in 1..32 |-> "1"]
SecondKeyText ==
    <<"J", "E", "K", "N", "V", "n", "k", "b", "o", "3", "j", "m", "a", "5",
    "n", "R", "E", "B", "B", "J", "C", "D", "o", "X", "F", "V", "e", "K",
    "k", "D", "5", "6", "V", "3", "x", "K", "r", "v", "R", "m", "W", "x",
    "F", "G">>
NotBase58Text == <<"a", "b", "c", "0">>
ShortKeyText ==
    <<"K", "e", "R", "v", "Y", "S", "e", "h", "q", "m", "M", "N", "j", "C",
    "U", "g", "F", "v", "J", "v", "Z", "D", "h", "8", "Z", "3", "K", "P",
    "H", "B", "U", "M", "X", "8", "e", "t", "R", "g", "Z", "6", "t", "c">>
SecondKey == [i \in 1..32 |-> 255]

\* the lines of a configuration file, by what they are, and their text
Header(section) == [kind |-> "header", key |-> section, value |-> << >>]
Entry(key, value) == [kind |-> "entry", key |-> key, value |-> value]
PaddedEntry(key, value) == [kind |-> "padded", key |-> key, value |-> value]
Comment(text) == [kind |-> "comment", key |-> << >>, value |-> text]
Blank == [kind |-> "blank", key |-> << >>, value |-> << >>]

Render(item) ==
    CASE item.kind = "header" -> <<"[">> \o item.key \o <<"]">>
      [] item.kind = "entry" -> item.key \o <<" ", "=", " ", "\"">> \o item.value \o <<"\"">>
      [] item.kind = "padded" ->
            <<" ", "\t">> \o item.key \o <<"=", "\"">> \o item.value \o <<"\"", " ", "\r">>
      [] item.kind = "comment" -> <<"#", " ">> \o item.value
      [] item.kind = "blank" -> << >>

RECURSIVE RenderAll(_)
RenderAll(items) ==
    IF items = << >> THEN << >>
    ELSE Render(Head(items)) \o <<"\n">> \o RenderAll(Tail(items))

localnet_section == programs_word \o <<".", "l", "o", "c", "a", "l", "n", "e", "t">>
provider_section == <<"p", "r", "o", "v", "i", "d", "e", "r">>
programsx_section == programs_word \o <<"x">>

Sections == {localnet_section, programs_word, provider_section, programsx_section}

FirstLines ==
    { Entry(swap_word, ProgramKeyText),
      Entry(swap_word, DefaultKeyText),
      Entry(swap_word, << >>),
      Entry(swap_word, NotBase58Text),
      Entry(swap_word, ShortKeyText),
      Entry(swap_word \o <<"_", "v", "2">>, DefaultKeyText),
      Entry(<<"m", "y">> \o swap_word, DefaultKeyText),
      PaddedEntry(swap_word, ProgramKeyText),
      Comment(Render(Entry(swap_word, DefaultKeyText))),
      Blank }

MiddleLines == {Blank, Header(provider_section), Header(programs_word)}

LastLines ==
    { Entry(swap_word, SecondKeyText), Entry(swap_word, NotBase58Text), Blank }

Tomls ==
    { <<Header(s), first, middle, last>> :
        s \in Sections, first \in FirstLines, middle \in MiddleLines, last \in LastLines }

swap_so == <<"swap", "so">>

DeployDirs ==
    { << >>,
      <<Dir(<<"deploy">>, << >>)>>,
      <<Dir(<<"deploy">>, <<File(swap_so)>>)>>,
      <<Dir(<<"deploy">>, <<File(<<"other", "so">>)>>)>>,
      <<Dir(<<"deploy">>, <<Dir(swap_so, << >>)>>)>> }

SbfDirs ==
    { << >>,
      <<Dir(<<"sbf-solana-solana">>, <<Dir(<<"release">>, <<File(swap_so)>>)>>)>> }

TargetExtras ==
    { << >>,
      <<File(<<"libswap", "so">>)>>,
      <<Dir(<<"debug">>, <<File(<<"notes", "txt">>), File(<<"prog", "so">>)>>)>>,
      <<Dir(<<"debug">>, <<File(<<"notes", "txt">>)>>)>>,
      <<File(<<"", "so">>)>> }

ArtifactsDirs == { << >>, <<Dir(<<"artifacts">>, <<File(swap_so)>>)>> }

\* target: absent, a plain file, or a directory listed in either order
Targets ==
    { << >>, <<File(<<"target">>)>> }
    \cup { <<Dir(<<"target">>, d \o s \o x)>> :
             d \in DeployDirs, s \in SbfDirs, x \in TargetExtras }
    \cup { <<Dir(<<"target">>, x \o s \o d)>> :
             d \in DeployDirs, s \in SbfDirs, x \in TargetExtras }

\* a binary outside target and outside artifacts
SourceDir == <<Dir(<<"src">>, <<File(<<"lib", "so">>)>>)>>

RepoA == <<"repo_a">>

NoRepo == [root |-> RepoA, exists |-> FALSE, entries |-> << >>]
RepoWith(entries) == [root |-> RepoA, exists |-> TRUE, entries |-> entries]

LoaderRepos ==
    {NoRepo} \cup { RepoWith(t \o a \o SourceDir) : t \in Targets, a \in ArtifactsDirs }

\* the inputs of the loaders: a repository and, where it has a
\* configuration file written from lines, those lines.  Repositories for
\* the program id: none, one without a configuration file, one where it is
\* a directory, and one for each configuration.
ConfigRepos ==
    { <<NoRepo, << >>>>,
      <<RepoWith(SourceDir), << >>>>,
      <<RepoWith(<<Dir(<<"Anchor", "toml">>, << >>)>>), << >>>> }
    \cup { <<RepoWith(<<FileWith(<<"Anchor", "toml">>, RenderAll(items))>>), items>> :
             items \in Tomls }

LoaderInputs == { <<repo, << >>>> : repo \in LoaderRepos } \cup ConfigRepos

InitLoader ==
    /\ accounts = << >>
    /\ next_unique = 1
    /\ oracle_calls = 0
    /\ \E input \in LoaderInputs :
          ret = [Ret("new", None, "Ok", None) EXCEPT !.args = input]
    /\ written = << >>
    /\ off_curve = {}
    /\ derived = {}
    /\ fixture = None
    /\ run = NoRun
    /\ env = NoEnv

LoadSwapProgram ==
    /\ \E r \in {load_swap_program(ret.args[1])} :
          ret' = [Ret("load_swap_program", None, r.status, r.value)
                     EXCEPT !.args = ret.args]
    /\ UNCHANGED <<accounts, next_unique, oracle_calls, written, off_curve, env, derived,
                   fixture, run>>

LoadSwapProgramId ==
    /\ \E r \in {load_swap_program_id(ret.args[1])} :
          ret' = [Ret("load_swap_program_id", None, r.status, r.value)
                     EXCEPT !.args = ret.args]
    /\ UNCHANGED <<accounts, next_unique, oracle_calls, written, off_curve, env, derived,
                   fixture, run>>

NextLoader ==
    \/ LoadSwapProgram
    \/ LoadSwapProgramId

SpecLoader == InitLoader /\ [][NextLoader]_vars

\* every file below a directory
RECURSIVE FilesBelow(_, _)
FilesBelow(dir, entries) ==
    UNION { IF entries[i].kind = "dir"
            THEN FilesBelow(Append(dir, entries[i].name), entries[i].entries)
            ELSE {Append(dir, entries[i].name)} : i \in DOMAIN entries }

\* the files with the extension so anywhere below target
BinariesBelowTarget(repo) ==
    IF lookup(repo.entries, target_rel) = None THEN {}
    ELSE { p \in FilesBelow(join(repo, target_rel),
                            lookup(repo.entries, target_rel)[1].entries) :
             extension(p) = Some("so") }

\* C26: the locator reports repository-not-found when the repository root
\* does not exist; otherwise it returns target/deploy/swap.so if that
\* exists, else target/sbf-solana-solana/release/swap.so, else
\* artifacts/swap.so, else a file with the extension so found anywhere
\* below target; it reports program-not-found only when none of these
\* four steps finds a file.
C26_LocatorPriorityOrder ==
    ret.op = "load_swap_program" =>
        LET repo == ret.args[1]
        IN  IF ~repo.exists
            THEN ret.status = "RepoNotFound"
            ELSE IF path_exists(repo, deploy_rel)
            THEN ret.status = "Ok" /\ ret.value = Some(join(repo, deploy_rel))
            ELSE IF path_exists(repo, sbf_rel)
            THEN ret.status = "Ok" /\ ret.value = Some(join(repo, sbf_rel))
            ELSE IF path_exists(repo, artifacts_rel)
            THEN ret.status = "Ok" /\ ret.value = Some(join(repo, artifacts_rel))
            ELSE IF BinariesBelowTarget(repo) # {}
            THEN ret.status = "Ok" /\ ret.value[1] \in BinariesBelowTarget(repo)
            ELSE ret.status = "ProgramNotFound"

\* the second and the third conventional place both hold a binary, the
\* first does not, and the locator answered
C26_Witness ==
    /\ ret.op = "load_swap_program"
    /\ ~path_exists(ret.args[1], deploy_rel)
    /\ path_exists(ret.args[1], sbf_rel)
    /\ path_exists(ret.args[1], artifacts_rel)
    /\ ret.status = "Ok"

\* the recursive search answered with a binary that is in none of the
\* conventional places
RecursiveSearchHit ==
    /\ ret.op = "load_swap_program"
    /\ ret.status = "Ok"
    /\ ret.value[1] \notin {join(ret.args[1], deploy_rel), join(ret.args[1], sbf_rel),
                            join(ret.args[1], artifacts_rel)}

\* the texts that are addresses, with the address each one spells
AddressOf(text) ==
    CASE text = ProgramKeyText -> Some(ProgramKey)
      [] text = DefaultKeyText -> Some(DefaultPubkey)
      [] text = SecondKeyText -> Some(SecondKey)
      [] OTHER -> None

\* the value of the first entry with the key swap and a non-empty value
\* under a header that is programs or starts with "programs."
RECURSIVE FirstSwapValue(_, _)
FirstSwapValue(items, in_programs) ==
    IF items = << >> THEN None
    ELSE IF Head(items).kind = "header"
    THEN FirstSwapValue(Tail(items),
             Head(items).key = programs_word
             \/ starts_with(Head(items).key, programs_word \o <<".">>))
    ELSE IF /\ in_programs
            /\ Head(items).kind \in {"entry", "padded"}
            /\ Head(items).key = swap_word
            /\ Head(items).value # << >>
    THEN Some(Head(items).value)
    ELSE FirstSwapValue(Tail(items), in_programs)

\* C27: the program id is the value of the first line with exactly the key
\* swap and a non-empty value among the lines whose most recent section
\* header is [programs] or starts with "programs."; lines of other
\* sections, comments, blank lines and keys that contain or extend the
\* name are ignored; the outcome is identity-not-found when there is no
\* such line and invalid-identity when its value is not an address.
C27_ProgramIdByExactKey ==
    (ret.op = "load_swap_program_id" /\ ret.args[2] # << >>) =>
        LET chosen == FirstSwapValue(ret.args[2], FALSE)
        IN  IF chosen = None THEN ret.status = "ProgramIdNotFound"
            ELSE IF AddressOf(chosen[1]) = None THEN ret.status = "InvalidProgramId"
            ELSE ret.status = "Ok" /\ ret.value = AddressOf(chosen[1])

\* a configuration whose first swap line lies in another section and whose
\* later one, after a [programs] header, gave the program id
C27_Witness ==
    /\ ret.op = "load_swap_program_id"
    /\ ret.args[2] = <<Header(provider_section), Entry(swap_word, ProgramKeyText),
                       Header(programs_word), Entry(swap_word, SecondKeyText)>>
    /\ ret.value = Some(SecondKey)

----------------------------------------------------------------------------
(* Scenario inputs: the repository under test and the oracle's results     *)

DEFAULT_OFFERED_AMOUNT == 1000000
DEFAULT_WANTED_AMOUNT == 1000000
DEFAULT_MINT_DECIMALS == 6

\* the repositories a checkpoint is run against: one with a binary and a
\* program id, one whose configuration names no swap program, one without
\* a binary, one whose declared program id is the default address, and a
\* directory that does not exist
ConfigFile(items) == FileWith(<<"Anchor", "toml">>, RenderAll(items))

DeployedBinary == <<Dir(<<"target">>, <<Dir(<<"deploy">>, <<File(swap_so)>>)>>)>>

ScenarioRepos ==
    { RepoWith(DeployedBinary
               \o <<ConfigFile(<<Header(localnet_section),
                                 Entry(swap_word, ProgramKeyText)>>)>>),
      RepoWith(DeployedBinary
               \o <<ConfigFile(<<Header(provider_section),
                                 Entry(swap_word, ProgramKeyText)>>)>>),
      RepoWith(<<ConfigFile(<<Header(localnet_section),
                              Entry(swap_word, ProgramKeyText)>>)>>),
      RepoWith(DeployedBinary
               \o <<ConfigFile(<<Header(localnet_section),
                                 Entry(swap_word, DefaultKeyText)>>)>>),
      NoRepo }

\* STACKCLASS_REPOSITORY_DIR: not set, or the path of a repository
RepoDirs == {None} \cup { Some(repo) : repo \in ScenarioRepos }

\* get_repo_dir
get_repo_dir(e) ==
    IF e.STACKCLASS_REPOSITORY_DIR = None THEN Err("RepoNotFound")
    ELSE Ok(e.STACKCLASS_REPOSITORY_DIR[1])

\* From<ProgramLoadError> for TestContextError
from_program_load_error(e) == "ExecutionError"

\* SwapTestContext::new(mollusk, program_id), or the failure of
\* create_swap_mollusk
context_of(mollusk, program_id) ==
    IF mollusk.status = "Panic"
    THEN [status |-> "Panic", accounts |-> << >>,
          program_id |-> DefaultPubkey, env |-> mollusk.env]
    ELSE IF mollusk.status # "Ok"
    THEN [status |-> from_program_load_error(mollusk.status),
          accounts |-> << >>, program_id |-> DefaultPubkey, env |-> mollusk.env]
    ELSE [status |-> "Ok", accounts |-> << >>,
          program_id |-> program_id, env |-> mollusk.env]

\* init_test_context after load_swap_program_id
context_for(repo, e, program_id) ==
    IF program_id.status # "Ok"
    THEN [status |-> from_program_load_error(program_id.status),
          accounts |-> << >>, program_id |-> DefaultPubkey, env |-> e]
    ELSE context_of(create_swap_mollusk({repo}, repo, e), program_id.value[1])

\* init_test_context: load_swap_program_id, create_swap_mollusk, new
init_test_context(repo, e) == context_for(repo, e, load_swap_program_id(repo))

\* The program under test is arbitrary.  The results explored for one
\* submitted instruction: failure (with or without returned accounts),
\* success without effect, success with the effect of a swap program,
\* success with part of that effect or more than it, and for make_offer
\* success with an offer record too short to decode.
OracleBumps == {MaxBump, MaxBump - 1}

\* first 8 bytes of the digest of "account:Offer"
OfferDiscriminator == <<215, 88, 60, 71, 170, 162, 73, 229>>

OfferRecord(f, bump) ==
    [DefaultAccount EXCEPT
        !.lamports = minimum_balance(121),
        !.owner = f.program_id,
        !.data = OfferDiscriminator \o to_le_bytes(f.offer_id, 8) \o f.maker
                    \o f.token_mint_a \o f.token_mint_b
                    \o to_le_bytes(f.wanted_amount, 8) \o <<bump>>]

AmountAt(accts, k) ==
    IF k \in DOMAIN accts /\ token_account_amount(accts[k]).status = "Ok"
    THEN token_account_amount(accts[k]).value[1] ELSE 0

\* what is left of held after paying amount (a program that does not check
\* the balance leaves it alone)
Debit(held, amount) == IF held >= amount THEN held - amount ELSE held

MakeOfferEffect(accts, f, bump) ==
    << <<f.maker_token_account_a,
         create_account_for_token_account(TokenAccountOf(f.token_mint_a, f.maker,
             Debit(AmountAt(accts, f.maker_token_account_a), f.offered_amount)))>>,
       <<f.vault,
         create_account_for_token_account(TokenAccountOf(f.token_mint_a, f.offer,
             f.offered_amount))>>,
       <<f.offer, OfferRecord(f, bump)>> >>

ShortOfferEffect(f) ==
    << <<f.offer, [OfferRecord(f, MaxBump) EXCEPT !.data = OfferDiscriminator]>> >>

TakeOfferEffect(accts, f) ==
    << <<f.taker_token_account_a,
         create_account_for_token_account(TokenAccountOf(f.token_mint_a, f.taker,
             AmountAt(accts, f.taker_token_account_a) + AmountAt(accts, f.vault)))>>,
       <<f.taker_token_account_b,
         create_account_for_token_account(TokenAccountOf(f.token_mint_b, f.taker,
             Debit(AmountAt(accts, f.taker_token_account_b), f.wanted_amount)))>>,
       <<f.maker_token_account_b,
         create_account_for_token_account(TokenAccountOf(f.token_mint_b, f.maker,
             AmountAt(accts, f.maker_token_account_b) + f.wanted_amount))>>,
       <<f.vault, empty_system_account>>,
       <<f.offer, empty_system_account>> >>

\* a make_offer that fills the vault and writes the offer without debiting
\* the maker, and one that also credits the taker's token-a account
VaultOnlyEffect(accts, f) ==
    << <<f.vault,
         create_account_for_token_account(TokenAccountOf(f.token_mint_a, f.offer,
             f.offered_amount))>>,
       <<f.offer, OfferRecord(f, MaxBump)>> >>

InflatingEffect(accts, f) ==
    MakeOfferEffect(accts, f, MaxBump)
        \o << <<f.taker_token_account_a,
                create_account_for_token_account(TokenAccountOf(f.token_mint_a, f.taker,
                    AmountAt(accts, f.taker_token_account_a) + 1))>> >>

\* a take_offer that pays both sides and closes the offer but leaves the
\* vault as it was
KeepsVaultEffect(accts, f) ==
    SubSeq(TakeOfferEffect(accts, f), 1, 3) \o << <<f.offer, empty_system_account>> >>

InstructionResult(program_result, resulting_accounts) ==
    [program_result |-> program_result, resulting_accounts |-> resulting_accounts]

MakeOfferResults(accts, f) ==
    { InstructionResult("Err", << >>),
      InstructionResult("Err", MakeOfferEffect(accts, f, MaxBump)),
      InstructionResult("Ok", << >>),
      InstructionResult("Ok", ShortOfferEffect(f)),
      InstructionResult("Ok", VaultOnlyEffect(accts, f)),
      InstructionResult("Ok", InflatingEffect(accts, f)) }
    \cup { InstructionResult("Ok", MakeOfferEffect(accts, f, bump)) : bump \in OracleBumps }

TakeOfferResults(accts, f) ==
    { InstructionResult("Err", << >>),
      InstructionResult("Err", TakeOfferEffect(accts, f)),
      InstructionResult("Ok", << >>),
      InstructionResult("Ok", TakeOfferEffect(accts, f)),
      InstructionResult("Ok", KeepsVaultEffect(accts, f)) }

----------------------------------------------------------------------------
(* Scenario specification: a checkpoint builds a fixture and drives it     *)

\* the checkpoints that only try make_offer
SmokeCheckpoints ==
    { "run_env_setup_check", "run_rust_basics_check", "run_anchor_try_check",
      "run_deployment_checks" }

Checkpoints ==
    { "run_error_checks", "run_token_transfer_check",
      "run_security_checks", "run_pda_checks", "run_make_offer_checks",
      "run_cpi_transfer_check", "run_solana_model_check" }
    \cup SmokeCheckpoints

Done(c, verdict) == [checkpoint |-> c, pc |-> "done", verdict |-> verdict]
At(c, pc) == [checkpoint |-> c, pc |-> pc, verdict |-> ""]

\* SwapFixture::new_default, and the amounts run_error_checks passes
CheckpointAmounts(c) ==
    [offered_amount |-> DEFAULT_OFFERED_AMOUNT,
     wanted_amount |-> DEFAULT_WANTED_AMOUNT,
     maker_balance_a |-> IF c = "run_error_checks" THEN 0 ELSE DEFAULT_OFFERED_AMOUNT,
     taker_balance_b |-> DEFAULT_WANTED_AMOUNT,
     decimals |-> DEFAULT_MINT_DECIMALS]

OfferSeeds(maker, id_bytes) == <<OFFER_SEED_PREFIX, maker, id_bytes>>
AtaSeeds(wallet, mint) == <<wallet, token_program_id, mint>>

\* the offer seeds as new_with_amounts builds them (offer_id: i32) and as
\* run_pda_checks builds them (fixture.offer_id: u64)
BuildOfferSeeds(maker, offer_id) == OfferSeeds(maker, to_le_bytes(offer_id, 4))
CheckOfferSeeds(f) == OfferSeeds(f.maker, to_le_bytes(f.offer_id, 8))

\* the off-curve bumps of each derivation of the scenario: the first one
\* tried, the second one (and a lower one), or none at all
ScenarioFamilies == { {MaxBump}, {MaxBump - 1, 3}, {} }

\* the derivations of a scenario for one program id, with their bumps
ScenarioOffCurve(program_id, fb, fc, fa) ==
    OffCurveFor(BuildOfferSeeds(new_unique(1), 1), program_id, fb)
    \cup OffCurveFor(OfferSeeds(new_unique(1), to_le_bytes(1, 8)), program_id, fc)
    \cup UNION { OffCurveFor(AtaSeeds(w, m), associated_token_program_id, fa) :
                   w \in {new_unique(1), new_unique(2)},
                   m \in {new_unique(3), new_unique(4)} }
    \cup UNION { OffCurveFor(
                     AtaSeeds(Candidate(Append(BuildOfferSeeds(new_unique(1), 1), <<b>>),
                                        program_id),
                              new_unique(3)),
                     associated_token_program_id, fa) : b \in fb }

InitScenario ==
    /\ accounts = << >>
    /\ next_unique = 1
    /\ oracle_calls = 0
    /\ ret = Ret("new", None, "Ok", None)
    /\ written = << >>
    /\ derived = {}
    /\ fixture = None
    /\ run = NoRun
    /\ \E dir \in RepoDirs : env = [NoEnv EXCEPT !.STACKCLASS_REPOSITORY_DIR = dir]
    /\ \E fb \in ScenarioFamilies, fc \in ScenarioFamilies, fa \in ScenarioFamilies :
          off_curve = ScenarioOffCurve(ProgramKey, fb, fc, fa)
                      \cup ScenarioOffCurve(DefaultPubkey, fb, fc, fa)

Panicked(results) == \E r \in results : r.status = "Panic"

\* SwapFixture::new_with_amounts, called by checkpoint c
NewWithAmounts(c, repo, a) ==
    \E context \in {init_test_context(repo, env)} :
    /\ env' = context.env
    /\ IF context.status = "Panic"
      THEN /\ ret' = Ret("new_with_amounts", None, "Panic", None)
           /\ run' = At(c, "panicked")
           /\ UNCHANGED <<accounts, next_unique, written, derived, fixture>>
      ELSE IF context.status # "Ok"
      THEN /\ ret' = Ret("new_with_amounts", None, context.status, None)
           /\ run' = Done(c, context.status)
           /\ UNCHANGED <<accounts, next_unique, written, derived, fixture>>
      ELSE
        LET program_id == context.program_id
            maker == new_unique(next_unique)
            taker == new_unique(next_unique + 1)
            token_mint_a == new_unique(next_unique + 2)
            token_mint_b == new_unique(next_unique + 3)
            offer_id == 1
        IN
        /\ next_unique' = next_unique + 4
        /\ \E maker_token_account_a \in
                 {get_associated_token_address_with_program_id(maker, token_mint_a, token_program_id)},
              maker_token_account_b \in
                 {get_associated_token_address_with_program_id(maker, token_mint_b, token_program_id)},
              taker_token_account_a \in
                 {get_associated_token_address_with_program_id(taker, token_mint_a, token_program_id)},
              taker_token_account_b \in
                 {get_associated_token_address_with_program_id(taker, token_mint_b, token_program_id)} :
            IF Panicked({maker_token_account_a, maker_token_account_b,
                         taker_token_account_a, taker_token_account_b})
            THEN /\ ret' = Ret("new_with_amounts", None, "Panic", None)
                 /\ run' = At(c, "panicked")
                 /\ UNCHANGED <<accounts, written, derived, fixture>>
            ELSE
            \E offer \in {find_program_address(BuildOfferSeeds(maker, offer_id), program_id)} :
            \E vault \in
                 {IF offer.status = "Panic" THEN offer
                  ELSE get_associated_token_address_with_program_id(
                           offer.address, token_mint_a, token_program_id)} :
              /\ derived' = derived
                     \cup {Derivation(BuildOfferSeeds(maker, offer_id), program_id, offer)}
              /\ IF Panicked({offer, vault})
                 THEN /\ ret' = Ret("new_with_amounts", None, "Panic", None)
                      /\ run' = At(c, "panicked")
                      /\ UNCHANGED <<accounts, written, fixture>>
                 ELSE
                 LET inserted ==
                       << <<system_program_id, program_account(native_loader_id)>>,
                          <<token_program_id, program_account(bpf_loader_upgradeable_id)>>,
                          <<associated_token_program_id,
                            program_account(bpf_loader_upgradeable_id)>>,
                          <<maker, create_system_account(1000000000)>>,
                          <<taker, create_system_account(1000000000)>>,
                          <<token_mint_a,
                            create_account_for_mint(MintOf(maker, a.maker_balance_a, a.decimals))>>,
                          <<token_mint_b,
                            create_account_for_mint(MintOf(taker, a.taker_balance_b, a.decimals))>>,
                          <<maker_token_account_a.address,
                            create_account_for_token_account(
                                TokenAccountOf(token_mint_a, maker, a.maker_balance_a))>>,
                          <<maker_token_account_b.address,
                            create_account_for_token_account(
                                TokenAccountOf(token_mint_b, maker, 0))>>,
                          <<taker_token_account_a.address,
                            create_account_for_token_account(
                                TokenAccountOf(token_mint_a, taker, 0))>>,
                          <<taker_token_account_b.address,
                            create_account_for_token_account(
                                TokenAccountOf(token_mint_b, taker, a.taker_balance_b))>>,
                          <<offer.address, empty_system_account>>,
                          <<vault.address, empty_system_account>> >>
                 IN  /\ accounts' = InsertAll(context.accounts, inserted)
                     /\ written' = WrittenAfter(written, inserted)
                     /\ fixture' = Some(
                          [program_id |-> program_id,
                           maker |-> maker,
                           taker |-> taker,
                           token_mint_a |-> token_mint_a,
                           token_mint_b |-> token_mint_b,
                           maker_token_account_a |-> maker_token_account_a.address,
                           maker_token_account_b |-> maker_token_account_b.address,
                           taker_token_account_a |-> taker_token_account_a.address,
                           taker_token_account_b |-> taker_token_account_b.address,
                           offer_id |-> offer_id,
                           offer |-> offer.address,
                           vault |-> vault.address,
                           token_program |-> token_program_id,
                           associated_token_program |-> associated_token_program_id,
                           offered_amount |-> a.offered_amount,
                           wanted_amount |-> a.wanted_amount,
                           decimals_a |-> a.decimals])
                     /\ ret' = Ret("new_with_amounts", Some(offer.address), "Ok",
                                   Some(offer.bump))
                     /\ run' = At(c, "built")

\* run_anchor_try_check and run_deployment_checks: the program id must
\* load and must not be the default address
default_program_id_test(program_id) ==
    IF program_id.status # "Ok"
    THEN Some([op |-> "load_swap_program_id", status |-> program_id.status])
    ELSE IF program_id.value[1] = DefaultPubkey
    THEN Some([op |-> "load_swap_program_id", status |-> "Program ID is still default"])
    ELSE None

\* what a checkpoint tests before it builds the fixture: the operation
\* that stops it and the error it returns, if any
before_fixture(c, repo) ==
    CASE c = "run_env_setup_check" ->
            IF ~path_exists(repo, << >>)
            THEN Some([op |-> "repo_path.exists",
                       status |-> "Repository directory not found"])
            ELSE IF check_program_available(repo) # "Ok"
            THEN Some([op |-> "check_program_available",
                       status |-> check_program_available(repo)])
            ELSE None
      [] c \in {"run_anchor_try_check", "run_deployment_checks"} ->
            default_program_id_test(load_swap_program_id(repo))
      [] OTHER -> None

\* a checkpoint from its start to the built fixture
CheckpointBuild ==
    /\ Running
    /\ run = NoRun
    /\ \E c \in Checkpoints :
          IF get_repo_dir(env).status # "Ok"
          THEN /\ ret' = Ret("get_repo_dir", None, get_repo_dir(env).status, None)
               /\ run' = Done(c, get_repo_dir(env).status)
               /\ UNCHANGED <<accounts, next_unique, written, derived, fixture, env>>
          ELSE \E early \in {before_fixture(c, get_repo_dir(env).value[1])} :
                 IF early # None
                 THEN /\ ret' = Ret(early[1].op, None, early[1].status, None)
                      /\ run' = Done(c, early[1].status)
                      /\ UNCHANGED <<accounts, next_unique, written, derived,
                                     fixture, env>>
                 ELSE NewWithAmounts(c, get_repo_dir(env).value[1],
                                     CheckpointAmounts(c))
    /\ UNCHANGED <<oracle_calls, off_curve>>

\* the value an execute step leaves in ret: the instruction submitted, the
\* oracle's result and what the adapter returned
RetSubmit(op, instruction, result, status) ==
    [RetExec(op, result, status) EXCEPT !.args = instruction]

\* run_pda_checks after make_offer succeeded, up to the derivation: the
\* offer account is fetched and decoded
pda_checks_decode(accts, f) ==
    IF fixture_get_account(accts, f.offer).status # "Ok"
    THEN Err(fixture_get_account(accts, f.offer).status)
    ELSE offer_data_from_account(fixture_get_account(accts, f.offer).value[1])

\* run_pda_checks: the comparison of the recomputed pair with the fixture
\* and with the decoded record
pda_checks_verdict(offer, f, expected) ==
    IF expected.address # f.offer \/ offer.bump # expected.bump
    THEN "Offer PDA derivation mismatch"
    ELSE "Ok"

\* run_token_transfer_check after make_offer and take_offer succeeded
token_transfer_verdict(accts, f) ==
    LET taker_token_a == fixture_get_account(accts, f.taker_token_account_a)
        maker_token_b == fixture_get_account(accts, f.maker_token_account_b)
    IN  IF taker_token_a.status # "Ok" THEN taker_token_a.status
        ELSE IF maker_token_b.status # "Ok" THEN maker_token_b.status
        ELSE IF token_account_amount(taker_token_a.value[1]).status # "Ok"
             THEN token_account_amount(taker_token_a.value[1]).status
        ELSE IF token_account_amount(maker_token_b.value[1]).status # "Ok"
             THEN token_account_amount(maker_token_b.value[1]).status
        ELSE IF token_account_amount(taker_token_a.value[1]).value[1] # f.offered_amount
                \/ token_account_amount(maker_token_b.value[1]).value[1] # f.wanted_amount
             THEN "Token balances did not transfer as expected"
        ELSE "Ok"

\* run_make_offer_checks after make_offer succeeded
make_offer_checks_verdict(accts, f) ==
    LET maker_token_account == fixture_get_account(accts, f.maker_token_account_a)
        vault_account == fixture_get_account(accts, f.vault)
    IN  IF maker_token_account.status # "Ok" THEN maker_token_account.status
        ELSE IF vault_account.status # "Ok" THEN vault_account.status
        ELSE IF token_account_amount(maker_token_account.value[1]).status # "Ok"
             THEN token_account_amount(maker_token_account.value[1]).status
        ELSE IF token_account_amount(vault_account.value[1]).status # "Ok"
             THEN token_account_amount(vault_account.value[1]).status
        ELSE IF token_account_amount(maker_token_account.value[1]).value[1] # 0
                \/ token_account_amount(vault_account.value[1]).value[1] # f.offered_amount
             THEN "Make offer transfer did not move tokens to vault"
        ELSE "Ok"

\* run_cpi_transfer_check after make_offer succeeded
cpi_transfer_verdict(accts, f) ==
    LET vault_account == fixture_get_account(accts, f.vault)
    IN  IF vault_account.status # "Ok" THEN vault_account.status
        ELSE IF token_account_amount(vault_account.value[1]).status # "Ok"
             THEN token_account_amount(vault_account.value[1]).status
        ELSE IF token_account_amount(vault_account.value[1]).value[1] # f.offered_amount
             THEN "Vault balance does not match offered amount"
        ELSE "Ok"

\* run_make_offer_smoke: the match on the outcome of execute_make_offer
make_offer_smoke_verdict_strict(status) ==
    IF status = "Ok" THEN "Ok" ELSE status
make_offer_smoke_verdict(status) ==
    IF status = "Ok" THEN "Ok"
    ELSE IF status = "ExecutionError" THEN "Ok"
    ELSE status

\* run_solana_model_check: the match on the outcome of execute_make_offer
solana_model_verdict(status, accts, f) ==
    IF status = "Ok"
    THEN IF fixture_get_account(accts, f.offer).status # "Ok"
         THEN fixture_get_account(accts, f.offer).status
         ELSE IF fixture_get_account(accts, f.offer).value[1].owner # f.program_id
         THEN "Offer account owner does not match program id"
         ELSE "Ok"
    ELSE IF status = "ExecutionError" THEN "Ok"
    ELSE status

\* what a checkpoint does with the outcome of its make_offer, when that
\* needs no further derivation
after_make_offer_lenient(c, status, accts, f) ==
    CASE c \in SmokeCheckpoints -> Done(c, make_offer_smoke_verdict(status))
      [] c = "run_solana_model_check" -> Done(c, solana_model_verdict(status, accts, f))
      [] c = "run_error_checks" ->
            Done(c, "Ok")
      [] c = "run_pda_checks" ->
            Done(c, IF status # "Ok" THEN status ELSE pda_checks_decode(accts, f).status)
      [] c = "run_make_offer_checks" ->
            Done(c, IF status # "Ok" THEN status ELSE make_offer_checks_verdict(accts, f))
      [] c = "run_cpi_transfer_check" ->
            Done(c, IF status # "Ok" THEN status ELSE cpi_transfer_verdict(accts, f))
      [] OTHER -> IF status # "Ok" THEN Done(c, status) ELSE At(c, "made")
after_make_offer_retrying(c, status, accts, f) ==
    CASE c \in SmokeCheckpoints -> Done(c, make_offer_smoke_verdict(status))
      [] c = "run_solana_model_check" -> Done(c, solana_model_verdict(status, accts, f))
      [] c = "run_error_checks" ->
            Done(c, IF status = "Ok"
                    THEN "Expected make_offer to fail with insufficient funds"
                    ELSE "Ok")
      [] c = "run_pda_checks" ->
            Done(c, IF status # "Ok" THEN status ELSE pda_checks_decode(accts, f).status)
      [] c = "run_make_offer_checks" ->
            Done(c, IF status # "Ok" THEN status ELSE make_offer_checks_verdict(accts, f))
      [] c = "run_cpi_transfer_check" ->
            Done(c, IF status # "Ok" THEN status ELSE cpi_transfer_verdict(accts, f))
      [] OTHER -> IF status # "Ok" THEN At(c, "built") ELSE At(c, "made")
after_make_offer(c, status, accts, f) ==
    CASE c \in SmokeCheckpoints -> Done(c, make_offer_smoke_verdict(status))
      [] c = "run_solana_model_check" -> Done(c, solana_model_verdict(status, accts, f))
      [] c = "run_error_checks" ->
            Done(c, IF status = "Ok"
                    THEN "Expected make_offer to fail with insufficient funds"
                    ELSE "Ok")
      [] c = "run_pda_checks" ->
            Done(c, IF status # "Ok" THEN status ELSE pda_checks_decode(accts, f).status)
      [] c = "run_make_offer_checks" ->
            Done(c, IF status # "Ok" THEN status ELSE make_offer_checks_verdict(accts, f))
      [] c = "run_cpi_transfer_check" ->
            Done(c, IF status # "Ok" THEN status ELSE cpi_transfer_verdict(accts, f))
      [] OTHER -> IF status # "Ok" THEN Done(c, status) ELSE At(c, "made")

\* fixture.execute_make_offer() and the checkpoint code that follows it up
\* to the next submission or the verdict
ExecuteMakeOffer ==
    /\ Running
    /\ run.pc = "built"
    /\ oracle_calls' = oracle_calls + 1
    /\ LET f == fixture[1]
           c == run.checkpoint
       IN  \E result \in MakeOfferResults(accounts, f) :
           \E out \in {execute_instruction(accounts, result)} :
             /\ accounts' = out.accounts
             /\ written' = IF result.program_result = "Ok"
                           THEN WrittenAfter(written, result.resulting_accounts)
                           ELSE written
             /\ IF /\ c = "run_pda_checks"
                   /\ out.status = "Ok"
                   /\ pda_checks_decode(out.accounts, f).status = "Ok"
                THEN \E expected \in {find_program_address(CheckOfferSeeds(f), f.program_id)} :
                       /\ derived' = derived
                              \cup {Derivation(CheckOfferSeeds(f), f.program_id, expected)}
                       /\ ret' = RetSubmit("execute_make_offer",
                                     make_offer_instruction(f), result, out.status)
                       /\ run' = IF expected.status = "Panic"
                                 THEN At(c, "panicked")
                                 ELSE Done(c, pda_checks_verdict(
                                          pda_checks_decode(out.accounts, f).value[1],
                                          f, expected))
                ELSE /\ derived' = derived
                     /\ ret' = RetSubmit("execute_make_offer",
                                   make_offer_instruction(f), result, out.status)
                     /\ run' = after_make_offer(c, out.status, out.accounts, f)
    /\ UNCHANGED <<next_unique, off_curve, env, fixture>>

\* fixture.execute_take_offer() in run_token_transfer_check, and the
\* balance comparison that follows it
ExecuteTakeOffer ==
    /\ Running
    /\ run.pc = "made"
    /\ run.checkpoint = "run_token_transfer_check"
    /\ oracle_calls' = oracle_calls + 1
    /\ LET f == fixture[1]
           c == run.checkpoint
       IN  \E result \in TakeOfferResults(accounts, f) :
           \E out \in {execute_instruction(accounts, result)} :
             /\ accounts' = out.accounts
             /\ written' = IF result.program_result = "Ok"
                           THEN WrittenAfter(written, result.resulting_accounts)
                           ELSE written
             /\ ret' = RetSubmit("execute_take_offer", take_offer_instruction(f),
                                 result, out.status)
             /\ run' = Done(c, IF out.status # "Ok" THEN out.status
                               ELSE token_transfer_verdict(out.accounts, f))
    /\ UNCHANGED <<next_unique, off_curve, env, derived, fixture>>

\* run_security_checks: fixture.context.execute_instruction(&bad_instruction)
\* and the match on its outcome
ExecuteBadTakeOffer ==
    /\ Running
    /\ run.pc = "made"
    /\ run.checkpoint = "run_security_checks"
    /\ oracle_calls' = oracle_calls + 1
    /\ LET f == fixture[1]
           c == run.checkpoint
       IN  \E result \in TakeOfferResults(accounts, f) :
           \E out \in {execute_instruction(accounts, result)} :
             /\ accounts' = out.accounts
             /\ written' = IF result.program_result = "Ok"
                           THEN WrittenAfter(written, result.resulting_accounts)
                           ELSE written
             /\ ret' = RetSubmit("execute_instruction", bad_take_offer_instruction(f),
                                 result, out.status)
             /\ run' = Done(c, IF out.status = "Ok"
                               THEN "Security check failed: invalid maker accepted"
                               ELSE "Ok")
    /\ UNCHANGED <<next_unique, off_curve, env, derived, fixture>>

NextScenario ==
    \/ CheckpointBuild
    \/ ExecuteMakeOffer
    \/ ExecuteTakeOffer
    \/ ExecuteBadTakeOffer

SpecScenario == InitScenario /\ [][NextScenario]_vars

----------------------------------------------------------------------------
(* Properties of the scenario                                              *)

TypeScenario ==
    /\ run.pc \in {"idle", "built", "made", "done", "panicked"}
    /\ (fixture # None) => (run.pc \in {"built", "made", "done", "panicked"})

\* C4: once the fixture is built, the ledger changes only by a successful
\* oracle call: a step that changes any ledger record submitted one
\* instruction, the oracle reported success, the adapter returned Ok, and
\* every address whose record (or presence) changed was returned by the
\* oracle with exactly the record the ledger now holds.
C4_OnlySuccessfulExecutionMutates ==
    [][ (fixture # None /\ accounts' # accounts)
            => /\ oracle_calls' = oracle_calls + 1
               /\ ret'.result.program_result = "Ok"
               /\ ret'.status = "Ok"
               /\ \A k \in (DOMAIN accounts) \cup (DOMAIN accounts') :
                     get_account(accounts', k) # get_account(accounts, k)
                        => \E i \in DOMAIN ret'.result.resulting_accounts :
                              ret'.result.resulting_accounts[i] = <<k, accounts'[k]>> ]_vars

\* on a built fixture a make_offer succeeded and filled the vault, and then
\* a tampered take_offer failed although the oracle returned accounts that
\* differ from the ledger
C4_Witness ==
    /\ fixture # None
    /\ run.checkpoint = "run_security_checks"
    /\ oracle_calls = 2
    /\ ret.status = "ExecutionError"
    /\ accounts[fixture[1].vault] # empty_system_account
    /\ \E i \in DOMAIN ret.result.resulting_accounts :
          get_account(accounts, ret.result.resulting_accounts[i][1])
              # Some(ret.result.resulting_accounts[i][2])

\* C10: the offer address reserved at build is derived with the offer-id
\* bytes every other place uses: the id bytes of the seed are the id bytes
\* encoded in the make-offer instruction, and an offer address recomputed
\* from fixture.offer_id (as the PDA checkpoint does) is fixture.offer.
C10_OfferAddressUsesOneIdEncoding ==
    fixture # None =>
        \A d \in derived :
            (d.seeds[1] = OFFER_SEED_PREFIX /\ d.seeds[2] = fixture[1].maker
                /\ d.program_id = fixture[1].program_id /\ d.status = "Ok")
              => /\ d.seeds[3] = SubSeq(make_offer_instruction(fixture[1]).data, 9, 16)
                 /\ d.address = fixture[1].offer

----------------------------------------------------------------------------
(* Properties of the built fixture                                         *)

\* the fixture is built and nothing has been submitted yet
JustBuilt == fixture # None /\ run.pc = "built"

\* the addresses the fixture names
FixtureAddresses(f) ==
    { f.maker, f.taker, f.token_mint_a, f.token_mint_b,
      f.maker_token_account_a, f.maker_token_account_b,
      f.taker_token_account_a, f.taker_token_account_b, f.offer, f.vault }

AmbientPrograms(f) ==
    { system_program_id, f.token_program, f.associated_token_program }

\* addr is the address derived from seeds under program_id: the candidate
\* at the largest bump whose candidate is off the curve
IsDerivedFrom(addr, seeds, program_id) ==
    \E b \in 0..MaxBump :
        /\ OffCurveAt(seeds, program_id, b)
        /\ \A b2 \in (b + 1)..MaxBump : ~OffCurveAt(seeds, program_id, b2)
        /\ addr = Candidate(Append(seeds, <<b>>), program_id)

IsAssociatedTokenAddress(addr, wallet, mint) ==
    IsDerivedFrom(addr, <<wallet, token_program_id, mint>>, associated_token_program_id)

\* C11: after a successful build the ledger holds exactly the thirteen
\* accounts of the scenario: the three ambient programs, executable; the
\* two actors, with lamports and owned by the system program; two mints;
\* four token accounts; the offer and the vault.  Every address the
\* fixture names is present.
C11_BuiltLedgerIsCanonical ==
    JustBuilt =>
        LET f == fixture[1]
        IN  /\ DOMAIN accounts = AmbientPrograms(f) \cup FixtureAddresses(f)
            /\ Cardinality(AmbientPrograms(f)) = 3
            /\ Cardinality(FixtureAddresses(f)) = 10
            /\ Cardinality(DOMAIN accounts) = 13
            /\ \A p \in AmbientPrograms(f) : accounts[p].executable
            /\ \A actor \in {f.maker, f.taker} :
                  /\ accounts[actor].lamports > 0
                  /\ accounts[actor].owner = system_program_id
                  /\ ~accounts[actor].executable
            /\ \A m \in {f.token_mint_a, f.token_mint_b} :
                  /\ accounts[m].owner = token_program_id
                  /\ Len(accounts[m].data) = 82
            /\ \A t \in {f.maker_token_account_a, f.maker_token_account_b,
                         f.taker_token_account_a, f.taker_token_account_b} :
                  /\ accounts[t].owner = token_program_id
                  /\ Len(accounts[t].data) = 165
            /\ \A k \in FixtureAddresses(f) : get_account(accounts, k) # None

\* a fixture was built for a derivation that had to decrement the bump
C11_Witness ==
    /\ JustBuilt
    /\ ret.op = "new_with_amounts"
    /\ ret.value = Some(MaxBump - 1)
    /\ Cardinality(DOMAIN accounts) = 13

\* bytes [a, b) of a record's data (positions a+1..b here)
Field(account, a, b) == SubSeq(account.data, a + 1, b)

\* C12: after build each (actor, mint) token account sits at the
\* associated-token address of the pair and records that mint and that
\* owner; maker/token-a holds maker_balance_a, taker/token-b holds
\* taker_balance_b, the other two hold 0; per mint the balances add up to
\* the mint's supply; the authority of mint a is the maker, of mint b the
\* taker.
C12_TokenAccountsAreCanonical ==
    JustBuilt =>
        LET f == fixture[1]
            a == CheckpointAmounts(run.checkpoint)
            pairs == { <<f.maker_token_account_a, f.maker, f.token_mint_a, a.maker_balance_a>>,
                       <<f.maker_token_account_b, f.maker, f.token_mint_b, 0>>,
                       <<f.taker_token_account_a, f.taker, f.token_mint_a, 0>>,
                       <<f.taker_token_account_b, f.taker, f.token_mint_b, a.taker_balance_b>> }
        IN  /\ \A p \in pairs :
                  /\ IsAssociatedTokenAddress(p[1], p[2], p[3])
                  /\ Field(accounts[p[1]], 0, 32) = p[3]
                  /\ Field(accounts[p[1]], 32, 64) = p[2]
                  /\ from_le_bytes(Field(accounts[p[1]], 64, 72)) = p[4]
            /\ from_le_bytes(Field(accounts[f.maker_token_account_a], 64, 72))
                 + from_le_bytes(Field(accounts[f.taker_token_account_a], 64, 72))
                 = from_le_bytes(Field(accounts[f.token_mint_a], 36, 44))
            /\ from_le_bytes(Field(accounts[f.maker_token_account_b], 64, 72))
                 + from_le_bytes(Field(accounts[f.taker_token_account_b], 64, 72))
                 = from_le_bytes(Field(accounts[f.token_mint_b], 36, 44))
            /\ Field(accounts[f.token_mint_a], 0, 36) = <<1, 0, 0, 0>> \o f.maker
            /\ Field(accounts[f.token_mint_b], 0, 36) = <<1, 0, 0, 0>> \o f.taker

\* a fixture built with a maker balance of 0 and a taker balance of
\* 1,000,000, at token addresses found below bump 255
C12_Witness ==
    /\ JustBuilt
    /\ run.checkpoint = "run_error_checks"
    /\ from_le_bytes(Field(accounts[fixture[1].taker_token_account_b], 64, 72)) = 1000000
    /\ from_le_bytes(Field(accounts[fixture[1].token_mint_a], 36, 44)) = 0
    /\ ~OffCurveAt(AtaSeeds(fixture[1].maker, fixture[1].token_mint_a),
                   associated_token_program_id, MaxBump)

\* C13: after build and before any execution the offer and the vault are
\* present as empty placeholders (no data, zero lamports, not executable,
\* owned by the all-zero system program), and the vault address is the
\* associated-token address of (offer, mint a).
C13_OfferAndVaultArePlaceholders ==
    JustBuilt =>
        LET f == fixture[1]
        IN  /\ \A k \in {f.offer, f.vault} :
                  /\ k \in DOMAIN accounts
                  /\ accounts[k].data = <<>>
                  /\ accounts[k].lamports = 0
                  /\ ~accounts[k].executable
                  /\ accounts[k].owner = DefaultPubkey
            /\ IsAssociatedTokenAddress(f.vault, f.offer, f.token_mint_a)
            /\ f.vault # f.offer

\* a built fixture whose offer was found at bump 254 and whose vault was
\* found at bump 254 too
C13_Witness ==
    /\ JustBuilt
    /\ ret.value = Some(MaxBump - 1)
    /\ ~OffCurveAt(AtaSeeds(fixture[1].offer, fixture[1].token_mint_a),
                   associated_token_program_id, MaxBump)
    /\ get_account(accounts, fixture[1].vault) = Some(empty_system_account)

----------------------------------------------------------------------------
(* Properties of the instructions submitted                                *)

Pubkeys(ix) == [i \in DOMAIN ix.accounts |-> ix.accounts[i].pubkey]
Signers(ix) == { i \in DOMAIN ix.accounts : ix.accounts[i].is_signer }
Writables(ix) == { i \in DOMAIN ix.accounts : ix.accounts[i].is_writable }

\* C14: the make-offer instruction targets the program under test and
\* lists maker, mint a, mint b, the maker's token-a account, offer, vault,
\* system program, token program, associated-token program, in that order;
\* only the maker signs; maker, maker's token-a account, offer and vault
\* are writable, the mints and the programs are read-only.
C14_MakeOfferAccounts ==
    (fixture # None /\ ret.op = "execute_make_offer") =>
        LET f == fixture[1]
            ix == ret.args
        IN  /\ ix.program_id = f.program_id
            /\ Ok(ix.program_id) = load_swap_program_id(env.STACKCLASS_REPOSITORY_DIR[1])
            /\ Pubkeys(ix) = << f.maker, f.token_mint_a, f.token_mint_b,
                                f.maker_token_account_a, f.offer, f.vault,
                                system_program_id, token_program_id,
                                associated_token_program_id >>
            /\ Signers(ix) = {1}
            /\ Writables(ix) = {1, 4, 5, 6}

\* a make-offer instruction was submitted and the program accepted it
C14_Witness ==
    /\ fixture # None
    /\ ret.op = "execute_make_offer"
    /\ ret.status = "Ok"
    /\ Len(ret.args.accounts) = 9
    /\ ret.args.accounts[1].pubkey = fixture[1].maker

\* C15: the take-offer instruction lists taker, maker, mint a, mint b, the
\* taker's token-a account, the taker's token-b account, the maker's
\* token-b account, offer, vault, system program, token program,
\* associated-token program, in that order; only the taker signs and the
\* maker is a writable non-signer.
C15_TakeOfferAccounts ==
    (fixture # None /\ ret.op = "execute_take_offer") =>
        LET f == fixture[1]
            ix == ret.args
        IN  /\ ix.program_id = f.program_id
            /\ Pubkeys(ix) = << f.taker, f.maker, f.token_mint_a, f.token_mint_b,
                                f.taker_token_account_a, f.taker_token_account_b,
                                f.maker_token_account_b, f.offer, f.vault,
                                system_program_id, token_program_id,
                                associated_token_program_id >>
            /\ Signers(ix) = {1}
            /\ ix.accounts[2].is_writable
            /\ ~ix.accounts[2].is_signer

\* a take-offer instruction was submitted after a successful make_offer
C15_Witness ==
    /\ fixture # None
    /\ ret.op = "execute_take_offer"
    /\ oracle_calls = 2
    /\ Len(ret.args.accounts) = 12
    /\ ret.args.accounts[2].pubkey = fixture[1].maker

----------------------------------------------------------------------------
(* Properties of the checkpoints' verdicts                                 *)

Passed(c) == run.checkpoint = c /\ run.pc = "done" /\ run.verdict = "Ok"

\* the token-a balances held by the maker, the taker and the vault
TokenASupplyHeld(accts, f) ==
    AmountAt(accts, f.maker_token_account_a)
        + AmountAt(accts, f.taker_token_account_a)
        + AmountAt(accts, f.vault)

\* C16: a make-offer checkpoint (run_make_offer_checks, and
\* run_cpi_transfer_check behind run_cpi_checks) passes only if make_offer
\* succeeded and afterwards the maker's token-a balance is lower by exactly
\* offered_amount, the vault holds exactly offered_amount, and the token-a
\* balances still add up to the supply of the build.
C16_MakeOfferCheckpointIsExact ==
    (Passed("run_make_offer_checks") \/ Passed("run_cpi_transfer_check")) =>
        LET f == fixture[1]
            a == CheckpointAmounts(run.checkpoint)
        IN  /\ ret.op = "execute_make_offer"
            /\ ret.status = "Ok"
            /\ AmountAt(accounts, f.maker_token_account_a)
                  = a.maker_balance_a - f.offered_amount
            /\ AmountAt(accounts, f.vault) = f.offered_amount
            /\ TokenASupplyHeld(accounts, f) = a.maker_balance_a

\* C17: the take-offer checkpoint submits make_offer, then take_offer, and
\* passes only if both succeeded and afterwards the vault's balance is 0,
\* the taker's token-a balance is the offered amount and the maker's
\* token-b balance is the wanted amount.
C17_TakeOfferCheckpointIsExact ==
    Passed("run_token_transfer_check") =>
        LET f == fixture[1]
        IN  /\ ret.op = "execute_take_offer"
            /\ ret.status = "Ok"
            /\ oracle_calls = 2
            /\ AmountAt(accounts, f.vault) = 0
            /\ AmountAt(accounts, f.taker_token_account_a) = f.offered_amount
            /\ AmountAt(accounts, f.maker_token_account_b) = f.wanted_amount

\* C18: the insufficient-funds checkpoint builds a scenario whose maker
\* holds 0 of token a while 1,000,000 is offered, and submits make_offer.
\* It passes exactly when make_offer fails with an execution error, it
\* fails when make_offer succeeds, and a rejected make_offer leaves the
\* ledger as the build left it.
C18_InsufficientFundsCheckpoint ==
    [][ /\ (run.checkpoint = "run_error_checks" /\ run.pc = "built") =>
              /\ AmountAt(accounts, fixture[1].maker_token_account_a) = 0
              /\ fixture[1].offered_amount = 1000000
              /\ oracle_calls' = oracle_calls + 1
              /\ ret'.op = "execute_make_offer"
              /\ ret'.args.data = build_make_offer_data(1, 1000000, 1000000)
              /\ run'.pc = "done"
              /\ (run'.verdict = "Ok") <=> (ret'.status = "ExecutionError")
              /\ (ret'.status = "ExecutionError") <=> (ret'.result.program_result = "Err")
              /\ ret'.status = "Ok" => run'.verdict # "Ok"
              /\ ret'.status = "ExecutionError" => accounts' = accounts
        /\ (run'.checkpoint = "run_error_checks" /\ run'.verdict = "Ok") =>
              (run.checkpoint = "run_error_checks" /\ run.pc = "built") ]_vars

\* the checkpoint passed on a rejected make_offer for which the oracle
\* returned accounts, and the vault is still the placeholder of the build
C18_Witness ==
    /\ Passed("run_error_checks")
    /\ ret.status = "ExecutionError"
    /\ ret.result.resulting_accounts # << >>
    /\ accounts[fixture[1].vault] = empty_system_account
    /\ Cardinality(DOMAIN accounts) = 13

\* C19: after a successful make_offer the security checkpoint submits a
\* take_offer instruction that differs from the genuine one only at
\* position 1, where an account that is not the maker stands.  It passes
\* exactly when that instruction fails with an execution error, fails when
\* the instruction is accepted, and fails when the make_offer before it
\* failed.
C19_SecurityCheckpoint ==
    [][ run.checkpoint = "run_security_checks" =>
          /\ (run.pc = "built" /\ ret'.status # "Ok") =>
                (run'.pc = "done" /\ run'.verdict # "Ok")
          /\ (run.pc = "built" /\ ret'.status = "Ok") => run'.pc = "made"
          /\ run.pc = "made" =>
                LET f == fixture[1]
                    ix == ret'.args
                    genuine == take_offer_instruction(f)
                IN  /\ oracle_calls' = oracle_calls + 1
                    /\ ix.program_id = genuine.program_id
                    /\ ix.data = genuine.data
                    /\ Len(ix.accounts) = Len(genuine.accounts)
                    /\ \A i \in DOMAIN ix.accounts :
                          i # 2 => ix.accounts[i] = genuine.accounts[i]
                    /\ genuine.accounts[2].pubkey = f.maker
                    /\ ix.accounts[2].pubkey # f.maker
                    /\ run'.pc = "done"
                    /\ (run'.verdict = "Ok") <=> (ret'.status = "ExecutionError")
                    /\ ret'.status = "Ok" => run'.verdict # "Ok"
          /\ run'.verdict = "Ok" => run.pc = "made" ]_vars

\* the checkpoint passed: make_offer had filled the vault and the tampered
\* take_offer was rejected
C19_Witness ==
    /\ Passed("run_security_checks")
    /\ oracle_calls = 2
    /\ ret.status = "ExecutionError"
    /\ ret.args.accounts[2].pubkey = fixture[1].taker
    /\ AmountAt(accounts, fixture[1].vault) = 1000000

----------------------------------------------------------------------------
(* Decoder specification: the four decoders over account data              *)

\* longest account data decoded
MaxDataLen == 124

\* data of a given length: all zero; 8-byte groups whose little-endian
\* value is 515; or 8-byte groups whose three low bytes tell the position
\* (every 8-byte group then reads as a number below 2^24)
DataOf(len, fill) ==
    [i \in 1..len |->
        IF fill = "zero" THEN 0
        ELSE IF fill = "low"
             THEN (IF (i - 1) % 8 = 0 THEN 3 ELSE IF (i - 1) % 8 = 1 THEN 2 ELSE 0)
        ELSE IF (i - 1) % 8 < 3 THEN i ELSE 0]

Fills == {"zero", "low", "ramp"}

Decoders ==
    {"token_account_amount", "token_account_owner", "token_account_mint",
     "offer_data_from_account"}

Decode(decoder, account) ==
    CASE decoder = "token_account_amount" -> token_account_amount(account)
      [] decoder = "token_account_owner" -> token_account_owner(account)
      [] decoder = "token_account_mint" -> token_account_mint(account)
      [] decoder = "offer_data_from_account" -> offer_data_from_account(account)

InitDecode ==
    /\ accounts = << >>
    /\ next_unique = 1
    /\ oracle_calls = 0
    /\ ret = Ret("new", None, "Ok", None)
    /\ written = << >>
    /\ off_curve = {}
    /\ derived = {}
    /\ fixture = None
    /\ run = NoRun
    /\ env = NoEnv

DecodeAccount ==
    /\ \E decoder \in Decoders, len \in 0..MaxDataLen, fill \in Fills :
          LET account == [DefaultAccount EXCEPT !.data = DataOf(len, fill),
                                                !.owner = token_program_id]
              r == Decode(decoder, account)
          IN  ret' = [Ret(decoder, None, r.status, r.value)
                         EXCEPT !.args = <<len, fill>>]
    /\ UNCHANGED <<accounts, next_unique, oracle_calls, written, off_curve, env, derived,
                   fixture, run>>

\* the three token decoders applied to the account create_token_account
\* builds for (owner, mint, amount)
DecodeCreatedTokenAccount ==
    /\ \E owner \in {ExtKey1, new_unique(1)}, mint \in {ExtKey2, new_unique(2)},
          amount \in U64Pool :
          LET account == create_token_account_record(owner, mint, amount)
          IN  ret' = [Ret("decode_created_token_account", None,
                          token_account_amount(account).status,
                          << token_account_owner(account).value,
                             token_account_mint(account).value,
                             token_account_amount(account).value >>)
                         EXCEPT !.args = <<owner, mint, amount>>]
    /\ UNCHANGED <<accounts, next_unique, oracle_calls, written, off_curve, env, derived,
                   fixture, run>>

NextDecode ==
    \/ DecodeAccount
    \/ DecodeCreatedTokenAccount

SpecDecode == InitDecode /\ [][NextDecode]_vars

\* the shortest data each decoder accepts
MinimumLength(decoder) ==
    CASE decoder = "token_account_amount" -> 72
      [] decoder = "token_account_owner" -> 64
      [] decoder = "token_account_mint" -> 32
      [] decoder = "offer_data_from_account" -> 121

\* C20: no decoder panics or reads out of range; for data shorter than its
\* minimum (72 for the balance, 64 for the owner, 32 for the mint, 121 for
\* the offer record) a decoder returns a validation error and no value, and
\* for data of the minimum length or longer it returns a value.
C20_DecodersNeverCrash ==
    ret.op \in Decoders =>
        /\ ret.status # "Panic"
        /\ ret.args[1] < MinimumLength(ret.op) =>
              (ret.status = "ValidationError" /\ ret.value = None)
        /\ ret.args[1] >= MinimumLength(ret.op) =>
              (ret.status = "Ok" /\ ret.value # None)

\* the offer decoder refused data one byte short of its minimum
C20_Witness ==
    /\ ret.op = "offer_data_from_account"
    /\ ret.args = <<120, "low">>
    /\ ret.status = "ValidationError"

\* C21: the offer decoder skips 8 bytes and reads id from [8,16)
\* little-endian, maker from [16,48), mint a from [48,80), mint b from
\* [80,112), the wanted amount from [112,120) little-endian and the bump
\* from byte 120; the token decoders read mint from [0,32), owner from
\* [32,64) and amount from [64,72) little-endian; decoding the account
\* create_token_account builds for (owner, mint, amount) gives back that
\* owner, mint and amount.
C21_FixedOffsetDecoding ==
    /\ (ret.op \in Decoders /\ ret.status = "Ok") =>
          LET d == DataOf(ret.args[1], ret.args[2])
              v == ret.value[1]
          IN  CASE ret.op = "offer_data_from_account" ->
                      /\ v.id = from_le_bytes(SubSeq(d, 9, 16))
                      /\ v.maker = SubSeq(d, 17, 48)
                      /\ v.token_mint_a = SubSeq(d, 49, 80)
                      /\ v.token_mint_b = SubSeq(d, 81, 112)
                      /\ v.token_b_wanted_amount = from_le_bytes(SubSeq(d, 113, 120))
                      /\ v.bump = d[121]
                [] ret.op = "token_account_mint" -> v = SubSeq(d, 1, 32)
                [] ret.op = "token_account_owner" -> v = SubSeq(d, 33, 64)
                [] ret.op = "token_account_amount" -> v = from_le_bytes(SubSeq(d, 65, 72))
    /\ ret.op = "decode_created_token_account" =>
          /\ ret.status = "Ok"
          /\ ret.value = <<Some(ret.args[1]), Some(ret.args[2]), Some(ret.args[3])>>

\* an account created for an owner, a different mint and a multi-byte
\* amount was decoded
C21_Witness ==
    /\ ret.op = "decode_created_token_account"
    /\ ret.args = <<new_unique(1), ExtKey2, 1000000>>
    /\ ret.value[3] = Some(1000000)

----------------------------------------------------------------------------
(* Properties of error reporting                                           *)

\* the operations that can end in an infrastructure failure
SetupOps == {"get_repo_dir", "new_with_amounts"}

\* C22: a failure of the infrastructure while a scenario is built
\* (repository not found, binary not found, program identity missing or
\* unparsable) is reported as an infrastructure error, never as an
\* execution error, and it is fatal to the checkpoint.
C22_InfrastructureErrorsStayDistinct ==
    (ret.op \in SetupOps /\ ret.status \notin {"Ok", "Panic"}) =>
        /\ ret.status # "ExecutionError"
        /\ run.pc = "done"
        /\ run.verdict # "Ok"

\* an infrastructure failure is fatal to the checkpoint
InfrastructureErrorsAreFatal ==
    (ret.op \in SetupOps /\ ret.status \notin {"Ok", "Panic"}) =>
        (run.pc = "done" /\ run.verdict # "Ok")


\* the repository under test declares the default address as program id
DefaultProgramIdDeclared ==
    /\ env.STACKCLASS_REPOSITORY_DIR # None
    /\ load_swap_program_id(env.STACKCLASS_REPOSITORY_DIR[1]) = Ok(DefaultPubkey)

\* C23: a checkpoint run against a repository whose declared program id
\* parses to the default address ends in failure, and no instruction has
\* been submitted to the oracle.
C23_DefaultProgramIdIsFatal ==
    (DefaultProgramIdDeclared /\ run.pc # "idle") =>
        /\ oracle_calls = 0
        /\ run.pc = "done"
        /\ run.verdict # "Ok"

\* the two checkpoints that test the program id for the default address
\* do stop on it
DefaultProgramIdStopsGuardedCheckpoints ==
    (/\ DefaultProgramIdDeclared
     /\ run.checkpoint \in {"run_anchor_try_check", "run_deployment_checks"}) =>
        /\ oracle_calls = 0
        /\ run.pc = "done"
        /\ run.verdict = "Program ID is still default"

----------------------------------------------------------------------------
(* Properties of the submissions                                           *)

\* the checkpoints that pass a failure of make_offer or take_offer on
Propagating ==
    { "run_token_transfer_check", "run_security_checks", "run_pda_checks",
      "run_make_offer_checks", "run_cpi_transfer_check" }

\* C24: a call of make_offer or take_offer submits its one instruction to
\* the oracle once; what it returns is the adapter's outcome (success for
\* a successful program result, execution error otherwise); after a
\* failure the checkpoint ends with that failure where it passes it on,
\* and the oracle is not called again once a checkpoint has ended.
C24_NoRetryVerbatim ==
    [][ /\ (oracle_calls' # oracle_calls) =>
              (oracle_calls' = oracle_calls + 1 /\ run.pc \in {"built", "made"})
        /\ (oracle_calls' # oracle_calls
            /\ ret'.op \in {"execute_make_offer", "execute_take_offer"}) =>
              /\ ret'.args = IF ret'.op = "execute_make_offer"
                             THEN make_offer_instruction(fixture[1])
                             ELSE take_offer_instruction(fixture[1])
              /\ ret'.status = IF ret'.result.program_result = "Ok"
                               THEN "Ok" ELSE "ExecutionError"
              /\ ret'.status # "Ok" =>
                    /\ run'.pc = "done"
                    /\ run'.checkpoint \in Propagating => run'.verdict = ret'.status
        /\ run.pc = "done" => oracle_calls' = oracle_calls
      ]_vars

\* take_offer failed after a successful make_offer and the checkpoint ended
\* with that failure
C24_Witness ==
    /\ ret.op = "execute_take_offer"
    /\ ret.status = "ExecutionError"
    /\ oracle_calls = 2
    /\ run = Done("run_token_transfer_check", "ExecutionError")

\* C25: substituting an account in a take-offer instruction leaves the
\* fixture as it was, leaves the data, the program and every other
\* position of the instruction as built, and changes no ledger record
\* (the ledger changes only if the oracle then accepts the instruction);
\* the instructions built from the fixture afterwards are the ones built
\* before.
C25_TamperingIsSideEffectFree ==
    [][ (oracle_calls' # oracle_calls /\ ret'.op = "execute_instruction") =>
          LET genuine == take_offer_instruction(fixture[1])
              tampered == ret'.args
          IN  /\ fixture' = fixture
              /\ tampered.program_id = genuine.program_id
              /\ tampered.data = genuine.data
              /\ DOMAIN tampered.accounts = DOMAIN genuine.accounts
              /\ \A i \in DOMAIN genuine.accounts :
                    (tampered.accounts[i] # genuine.accounts[i]) <=> (i = 2)
              /\ take_offer_instruction(fixture'[1]) = genuine
              /\ make_offer_instruction(fixture'[1]) = make_offer_instruction(fixture[1])
              /\ ret'.status # "Ok" => accounts' = accounts
      ]_vars

\* a tampered instruction was submitted and the program accepted it
C25_Witness ==
    /\ ret.op = "execute_instruction"
    /\ run.checkpoint = "run_security_checks"
    /\ ret.status = "Ok"
    /\ ret.args.accounts[2] = AccountMeta_new(fixture[1].taker, FALSE)
    /\ ret.args.accounts[1] = AccountMeta_new(fixture[1].taker, TRUE)

\* C29: the smoke checkpoints pass whether make_offer succeeded or failed
\* with an execution error, whatever the program returned; the
\* solana-model checkpoint passes on an execution error, and after a
\* successful make_offer it passes exactly when the offer account is owned
\* by the program under test.
C29_SmokeCheckpointsIgnoreErrorKind ==
    ret.op = "execute_make_offer" =>
        /\ ret.status \in {"Ok", "ExecutionError"}
        /\ run.checkpoint \in SmokeCheckpoints =>
              (run.pc = "done" /\ run.verdict = "Ok")
        /\ run.checkpoint = "run_solana_model_check" =>
              /\ run.pc = "done"
              /\ (run.verdict = "Ok") <=>
                    \/ ret.status = "ExecutionError"
                    \/ accounts[fixture[1].offer].owner = fixture[1].program_id

\* the environment checkpoint passed although make_offer failed and the
\* program returned accounts
C29_Witness ==
    /\ ret.op = "execute_make_offer"
    /\ Passed("run_env_setup_check")
    /\ ret.status = "ExecutionError"
    /\ ret.result.resulting_accounts # << >>

\* the solana-model checkpoint failed after a successful make_offer that
\* left the offer account with the system program
SolanaModelOwnerMismatch ==
    /\ ret.op = "execute_make_offer"
    /\ ret.status = "Ok"
    /\ run = Done("run_solana_model_check",
                  "Offer account owner does not match program id")

----------------------------------------------------------------------------
(* Environment specification: two checkpoints of one process build their   *)
(* oracles; create_swap_mollusk is three steps for each of them            *)

Threads == {1, 2}

RepoB == <<"repo_b">>

\* the repositories the two checkpoints are run against: under repo_a a
\* deployed swap.so or no binary, under repo_b a swap.so in artifacts or a
\* prog.so found by the recursive search
EnvRepos ==
    { RepoWith(DeployedBinary),
      RepoWith(SourceDir),
      [root |-> RepoB, exists |-> TRUE,
       entries |-> <<Dir(<<"artifacts">>, <<File(swap_so)>>)>>],
      [root |-> RepoB, exists |-> TRUE,
       entries |-> <<Dir(<<"target">>,
                         <<Dir(<<"debug">>, <<File(<<"prog", "so">>)>>)>>)>>] }

ThreadAt(repo, pc, program_path, loaded) ==
    [repo |-> repo, pc |-> pc, program_path |-> program_path, loaded |-> loaded]

Disk == { env.threads[t].repo : t \in DOMAIN env.threads }

InitEnv ==
    /\ accounts = << >>
    /\ next_unique = 1
    /\ oracle_calls = 0
    /\ ret = Ret("new", None, "Ok", None)
    /\ written = << >>
    /\ off_curve = {}
    /\ derived = {}
    /\ fixture = None
    /\ run = NoRun
    /\ \E repos \in [Threads -> EnvRepos] :
          env = [NoEnv EXCEPT
                    !.threads = [t \in Threads |-> ThreadAt(repos[t], "start", None, None)]]

\* let program_path = load_swap_program(repo_dir)?
LocateProgram(t) ==
    /\ env.threads[t].pc = "start"
    /\ \E program_path \in {load_swap_program(env.threads[t].repo)} :
          env' = [env EXCEPT !.threads[t] =
                    IF program_path.status # "Ok"
                    THEN ThreadAt(@.repo, "failed", None, None)
                    ELSE ThreadAt(@.repo, "located", program_path.value, None)]
    /\ UNCHANGED <<accounts, next_unique, oracle_calls, ret, written, off_curve,
                   derived, fixture, run>>

\* unsafe { std::env::set_var("SBF_OUT_DIR", program_dir) }
SetVar(t) ==
    /\ env.threads[t].pc = "located"
    /\ env' = [set_sbf_out_dir(env, parent(env.threads[t].program_path[1])[1])
                  EXCEPT !.threads[t].pc = "configured"]
    /\ UNCHANGED <<accounts, next_unique, oracle_calls, ret, written, off_curve,
                   derived, fixture, run>>

\* Mollusk::new(program_id, program_name)
NewMollusk(t) ==
    /\ env.threads[t].pc = "configured"
    /\ \E mollusk \in {Mollusk_new(Disk, env, file_stem(env.threads[t].program_path[1]))} :
          env' = [env EXCEPT !.threads[t] =
                    ThreadAt(@.repo,
                             IF mollusk.status = "Ok" THEN "ready" ELSE "panicked",
                             @.program_path, mollusk.value)]
    /\ UNCHANGED <<accounts, next_unique, oracle_calls, ret, written, off_curve,
                   derived, fixture, run>>

NextEnv ==
    \E t \in Threads :
        \/ LocateProgram(t)
        \/ SetVar(t)
        \/ NewMollusk(t)

SpecEnv == InitEnv /\ [][NextEnv]_vars

\* every oracle that is ready read the binary its own checkpoint located
OracleLoadsOwnBinary ==
    \A t \in DOMAIN env.threads :
        env.threads[t].pc = "ready" =>
            env.threads[t].loaded = env.threads[t].program_path

\* no checkpoint that located its binary fails to load one
OracleFindsBinary ==
    \A t \in DOMAIN env.threads : env.threads[t].pc # "panicked"

\* C28: SBF_OUT_DIR is written at most once in a process, and an oracle
\* never reads its program from the directory another checkpoint
\* configured.
C28_OracleDirectorySetOnce ==
    /\ env.set_var_calls <= 1
    /\ OracleLoadsOwnBinary

----------------------------------------------------------------------------
(* Concept specification: the CPI checkpoint over program descriptions     *)

\* str::contains
contains(s, needle) ==
    \E i \in 1..(Len(s) - Len(needle) + 1) : SubSeq(s, i, i + Len(needle) - 1) = needle

CpiContext_word ==
    <<"C", "p", "i", "C", "o", "n", "t", "e", "x", "t">>

FieldInfo(name, type_name) == [name |-> name, type_name |-> type_name]
AccountInfo(name, fields) == [name |-> name, fields |-> fields]

\* the field types explored: a CPI context, an account, a key and a type
\* whose name only resembles the context
TypeNames ==
    { CpiContext_word \o
        <<"<", "'", "i", "n", "f", "o", ",", " ", "T", "r", "a", "n", "s",
        "f", "e", "r", "<", "'", "i", "n", "f", "o", ">", ">">>,
      <<"A", "c", "c", "o", "u", "n", "t", "<", "'", "i", "n", "f", "o",
      ",", " ", "M", "i", "n", "t", ">">>,
      <<"P", "u", "b", "k", "e", "y">>,
      <<"C", "p", "i", "C", "o", "n", "t", "e", "n", "t">> }

FieldLists ==
    { << >> }
    \cup { <<FieldInfo("a", t)>> : t \in TypeNames }
    \cup { <<FieldInfo("a", t), FieldInfo("b", u)>> : t \in TypeNames, u \in TypeNames }

AccountLists ==
    { << >> }
    \cup { <<AccountInfo("MakeOffer", fields)>> : fields \in FieldLists }
    \cup { <<AccountInfo("MakeOffer", fields), AccountInfo("TakeOffer", more)>> :
             fields \in FieldLists,
             more \in {<< >>} \cup { <<FieldInfo("c", t)>> : t \in TypeNames } }

\* get_program_info: a failure of the verifier, or a description
ProgramInfos ==
    { Err("VerificationError") }
    \cup { Ok([accounts |-> accts]) : accts \in AccountLists }

has_cpi(info) ==
    \/ \E i \in DOMAIN info.accounts :
          \E j \in DOMAIN info.accounts[i].fields :
              contains(info.accounts[i].fields[j].type_name, CpiContext_word)
    \/ info.accounts # << >>

\* test_cpi_concept
test_cpi_concept(program_info) ==
    IF program_info.status # "Ok" THEN program_info.status
    ELSE IF has_cpi(program_info.value[1]) THEN "Ok"
    ELSE "CPI code not found"

InitConcept ==
    /\ accounts = << >>
    /\ next_unique = 1
    /\ oracle_calls = 0
    /\ \E program_info \in ProgramInfos :
          ret = [Ret("new", None, "Ok", None) EXCEPT !.args = program_info]
    /\ written = << >>
    /\ off_curve = {}
    /\ derived = {}
    /\ fixture = None
    /\ run = NoRun
    /\ env = NoEnv

TestCpiConcept ==
    /\ ret' = [Ret("test_cpi_concept", None, test_cpi_concept(ret.args), None)
                  EXCEPT !.args = ret.args]
    /\ UNCHANGED <<accounts, next_unique, oracle_calls, written, off_curve, env, derived,
                   fixture, run>>

NextConcept == TestCpiConcept

SpecConcept == InitConcept /\ [][NextConcept]_vars

\* some declared account has a field whose type name contains CpiContext
DeclaresCpiContext(info) ==
    \E i \in DOMAIN info.accounts :
        \E j \in DOMAIN info.accounts[i].fields :
            contains(info.accounts[i].fields[j].type_name, CpiContext_word)

\* C30: the CPI checkpoint passes only for a description in which some
\* declared account has a field whose type name contains "CpiContext";
\* for any other description it fails with "CPI code not found".
C30_CpiConceptNeedsCpiContext ==
    (ret.op = "test_cpi_concept" /\ ret.args.status = "Ok") =>
        IF DeclaresCpiContext(ret.args.value[1])
        THEN ret.status = "Ok"
        ELSE ret.status = "CPI code not found"

\* what the checkpoint does test: it fails only for a description that
\* declares no account at all
CpiConceptPassesOnAnyAccount ==
    (ret.op = "test_cpi_concept" /\ ret.args.status = "Ok") =>
        (ret.status = "Ok") <=> (ret.args.value[1].accounts # << >>)

====
